---- MODULE Spec2Model ----
(***************************************************************************)
(* giffer: a decoder and a version-gated encoder for the container         *)
(* structure of GIF 87a/89a streams (src/src/decoder.rs, encoder.rs,        *)
(* lib.rs, main.rs).                                                        *)
(*                                                                          *)
(* Bytes are integers 0..255, a buffer is a sequence of bytes, and a Rust   *)
(* offset o is the TLA+ index o + 1.  Option<T> is <<>> (None) or <<x>>     *)
(* (Some(x)).  An index or a slice past the end of the buffer is a Rust     *)
(* panic; it is the outcome "Panic" of the operator that makes the read.    *)
(***************************************************************************)
EXTENDS Integers, Sequences, FiniteSets, TLC

VARIABLES
    input,                      \* description of the file handed to decode
    bytes,                      \* the input buffer (immutable)
    discard_comments,           \* decode's flag
    pc,                         \* position of decode
    cx,                         \* Context: offset, graphic_control_extension
    version,                    \* decode's local `version`
    logical_screen_descriptor,  \* decode's local (None until decoded)
    application_extensions,     \* decode's local Vec
    graphic_rendering_blocks,   \* decode's local Vec
    comment_extensions,         \* decode's local Vec
    err,                        \* the anyhow error decode returned
    result,                     \* the GifData decode returned (None before)
    target,                     \* arguments of the encode call (None before)
    out,                        \* the Vec<u8> encode returned (None before)
    chain,                      \* a DataSubBlocks value, its encoding, and
                                \* what decoding that encoding returned
    color_tables,               \* a file with chosen packed bytes, what
                                \* decode returned, and a get_pixel call
    field                       \* a 16-bit field of a structure: its value,
                                \* its two bytes, and the round trip

vars == <<input, bytes, discard_comments, pc, cx, version,
          logical_screen_descriptor, application_extensions,
          graphic_rendering_blocks, comment_extensions, err, result,
          target, out, chain, color_tables, field>>

(***************************************************************************)
(* Bounds of the model.                                                     *)
(***************************************************************************)
MaxBlocks == 3        \* blocks between the screen descriptor and the trailer
MaxCutBlocks == 1     \* blocks of a stream that is handed over truncated
MaxChunks == 3        \* sub-blocks of a chain that is encoded on its own

(***************************************************************************)
(* Program constants.                                                       *)
(***************************************************************************)
SIGNATURE == <<71, 73, 70>>
TRAILER == 59
INTRODUCER == 33
SEPARATOR == 44
BLOCK_TERMINATOR == 0
GraphicControlExtension_LABEL == 249
GraphicControlExtension_BLOCK_SIZE == 4
CommentExtension_LABEL == 254
PlainTextExtension_LABEL == 1
PlainTextExtension_BLOCK_SIZE == 12
ApplicationExtension_LABEL == 255
ApplicationExtension_BLOCK_SIZE == 11

None == <<>>
Some(x) == <<x>>
IsSome(o) == o # <<>>
Unwrap(o) == o[1]

(***************************************************************************)
(* Machine integers.                                                        *)
(***************************************************************************)
RECURSIVE Pow2(_)
Pow2(n) == IF n = 0 THEN 1 ELSE 2 * Pow2(n - 1)

Shl8(x, n) == (x * Pow2(n)) % 256
Shl16(x, n) == (x * Pow2(n)) % 65536
Shr(x, n) == x \div Pow2(n)
AsU8(x) == x % 256

\* bytes[o] for an offset inside the buffer
At(b, o) == b[o + 1]
\* &bytes[lo..hi]
Slice(b, lo, hi) == SubSeq(b, lo + 1, hi)
\* n bytes can be read at offset o
InBounds(b, o, n) == o + n <= Len(b)

\* the shift made on the byte, before the conversion to u16
ReadU16_shift_before_cast(b, o) == Shl8(At(b, o), 8) + At(b, o + 1)

\* ((bytes[o] as u16) << 8) | bytes[o + 1] as u16
ReadU16(b, o) == Shl16(At(b, o), 8) + At(b, o + 1)

\* (x >> 8) as u8, ((x << 8) >> 8) as u8
WriteU16(x) == <<AsU8(Shr(x, 8)), AsU8(Shr(Shl16(x, 8), 8))>>

(***************************************************************************)
(* Results of the decoders: st is "Ok", "Err" (anyhow error) or "Panic".    *)
(***************************************************************************)
NoError == [kind |-> "none", offset |-> 0, expected |-> None, actual |-> None]
Error(k, o, e, a) == [kind |-> k, offset |-> o, expected |-> e, actual |-> a]

Ok(c, v) == [st |-> "Ok", cx |-> c, val |-> v, err |-> NoError]
Fail(c, e) == [st |-> "Err", cx |-> c, val |-> None, err |-> e]
Panic(c) == [st |-> "Panic", cx |-> c, val |-> None, err |-> NoError]

Advance(c, n) == [c EXCEPT !.offset = c.offset + n]

(***************************************************************************)
(* lib.rs: bit-field accessors.                                             *)
(***************************************************************************)
global_color_table_flag(packed_fields) == Shr(packed_fields, 7)
global_color_table_size(packed_fields) == Shr(Shl8(packed_fields, 5), 5)
local_color_table_flag(packed_fields) == Shr(packed_fields, 7)
local_color_table_size(packed_fields) == Shr(Shl8(packed_fields, 5), 5)
\* the table size counted in entries, not in bytes
ColorTableBytes_entries(size) == Pow2(size + 1)

ColorTableBytes(size) == 3 * Pow2(size + 1)

\* lib.rs lines 85-87; an index past the table is a slice panic
ColorTable_get_pixel(self, idx) ==
    IF idx * 3 + 3 > Len(self.pixels) THEN [st |-> "Panic", val |-> <<>>]
    ELSE [st |-> "Ok", val |-> Slice(self.pixels, idx * 3, idx * 3 + 3)]

(***************************************************************************)
(* decoder.rs                                                               *)
(***************************************************************************)
\* A decoder that makes a sub-decoder's result its own, or goes on with it:
\* the result of the sub-decoder is passed on as an argument.
Version_decode(c, b) ==
    IF ~InBounds(b, c.offset, 3) THEN Panic(c)
    ELSE IF Slice(b, c.offset, c.offset + 3) = <<56, 55, 97>>
    THEN Ok(Advance(c, 3), "V87a")
    ELSE IF Slice(b, c.offset, c.offset + 3) = <<56, 57, 97>>
    THEN Ok(Advance(c, 3), "V89a")
    ELSE Fail(Advance(c, 3),
              Error("invalid version", c.offset, None,
                    Slice(b, c.offset, c.offset + 3)))

\* lines 133-140: the descriptor before its palette is looked at
LogicalScreenDescriptor_fields(b, o) ==
    [logical_screen_width |-> ReadU16(b, o),
     logical_screen_height |-> ReadU16(b, o + 2),
     packed_fields |-> At(b, o + 4),
     background_color_index |-> At(b, o + 5),
     pixel_aspect_ratio |-> At(b, o + 6),
     global_color_table |-> None]

\* lines 142-155
LogicalScreenDescriptor_table(c, b, s, size) ==
    IF global_color_table_flag(s.packed_fields) = 1
    THEN IF ~InBounds(b, c.offset, size) THEN Panic(c)
         ELSE Ok(Advance(c, size),
                 [s EXCEPT !.global_color_table =
                     Some([pixels |-> Slice(b, c.offset, c.offset + size)])])
    ELSE Ok(c, s)

LogicalScreenDescriptor_decode(c, b) ==
    IF ~InBounds(b, c.offset, 7) THEN Panic(c)
    ELSE LogicalScreenDescriptor_table(
             Advance(c, 7), b, LogicalScreenDescriptor_fields(b, c.offset),
             ColorTableBytes(global_color_table_size(At(b, c.offset + 4))))

\* DataSubBlock_decode taking the data from the offset of the size byte
DataSubBlock_decode_from_size_byte(c, b) ==
    IF ~InBounds(b, c.offset, 1) THEN Panic(c)
    ELSE IF At(b, c.offset) = BLOCK_TERMINATOR THEN Ok(Advance(c, 1), None)
    ELSE IF ~InBounds(b, c.offset + 1, At(b, c.offset))
    THEN Panic(Advance(c, 1))
    ELSE Ok(Advance(c, 1 + At(b, c.offset)),
            Some([block_size |-> At(b, c.offset),
                  data |-> Slice(b, c.offset,
                                 c.offset + At(b, c.offset))]))

\* DataSubBlock_decode leaving the cursor on the terminator
DataSubBlock_decode_peek_terminator(c, b) ==
    IF ~InBounds(b, c.offset, 1) THEN Panic(c)
    ELSE IF At(b, c.offset) = BLOCK_TERMINATOR THEN Ok(c, None)
    ELSE IF ~InBounds(b, c.offset + 1, At(b, c.offset))
    THEN Panic(Advance(c, 1))
    ELSE Ok(Advance(c, 1 + At(b, c.offset)),
            Some([block_size |-> At(b, c.offset),
                  data |-> Slice(b, c.offset + 1,
                                 c.offset + 1 + At(b, c.offset))]))

DataSubBlock_decode(c, b) ==
    IF ~InBounds(b, c.offset, 1) THEN Panic(c)
    ELSE IF At(b, c.offset) = BLOCK_TERMINATOR THEN Ok(Advance(c, 1), None)
    ELSE IF ~InBounds(b, c.offset + 1, At(b, c.offset))
    THEN Panic(Advance(c, 1))
    ELSE Ok(Advance(c, 1 + At(b, c.offset)),
            Some([block_size |-> At(b, c.offset),
                  data |-> Slice(b, c.offset + 1,
                                 c.offset + 1 + At(b, c.offset))]))

RECURSIVE DataSubBlocks_loop(_, _, _)
\* lines 210-214: r is what DataSubBlock::decode returned
DataSubBlocks_push(r, b, blocks) ==
    IF r.st = "Panic" THEN r
    ELSE IF IsSome(r.val)
    THEN DataSubBlocks_loop(r.cx, b, Append(blocks, Unwrap(r.val)))
    ELSE Ok(r.cx, [blocks |-> blocks])

DataSubBlocks_loop(c, b, blocks) ==
    DataSubBlocks_push(DataSubBlock_decode(c, b), b, blocks)

DataSubBlocks_decode(c, b) == DataSubBlocks_loop(c, b, <<>>)

\* lines 237-241: d is what DataSubBlocks::decode returned
ApplicationExtension_new(b, o, d) ==
    IF d.st = "Panic" THEN d
    ELSE Ok(d.cx, [identifier |-> Slice(b, o, o + 8),
                   authentication_code |-> Slice(b, o + 8, o + 11),
                   data |-> d.val])

ApplicationExtension_decode(c, b) ==
    IF ~InBounds(b, c.offset, 1) THEN Panic(c)
    ELSE IF At(b, c.offset) # ApplicationExtension_BLOCK_SIZE
    THEN Fail(c, Error("invalid block size", c.offset,
                       Some(ApplicationExtension_BLOCK_SIZE),
                       <<At(b, c.offset)>>))
    ELSE IF ~InBounds(b, c.offset + 1, 11) THEN Panic(Advance(c, 1))
    ELSE ApplicationExtension_new(
             b, c.offset + 1, DataSubBlocks_decode(Advance(c, 12), b))

\* PlainTextExtension_new copying the pending modifier and leaving it pending
PlainTextExtension_new_clone(b, o, d) ==
    IF d.st = "Panic" THEN d
    ELSE Ok(d.cx,
            [text_grid_left_position |-> ReadU16(b, o),
             text_grid_top_position |-> ReadU16(b, o + 2),
             text_grid_width |-> ReadU16(b, o + 4),
             text_grid_height |-> ReadU16(b, o + 6),
             character_cell_width |-> At(b, o + 8),
             character_cell_height |-> At(b, o + 9),
             text_foreground_color_index |-> At(b, o + 10),
             text_background_color_index |-> At(b, o + 11),
             data |-> d.val,
             graphic_control_extension |-> d.cx.graphic_control_extension])

\* lines 275-286: d is what DataSubBlocks::decode returned
PlainTextExtension_new(b, o, d) ==
    IF d.st = "Panic" THEN d
    ELSE Ok([d.cx EXCEPT !.graphic_control_extension = None],
            [text_grid_left_position |-> ReadU16(b, o),
             text_grid_top_position |-> ReadU16(b, o + 2),
             text_grid_width |-> ReadU16(b, o + 4),
             text_grid_height |-> ReadU16(b, o + 6),
             character_cell_width |-> At(b, o + 8),
             character_cell_height |-> At(b, o + 9),
             text_foreground_color_index |-> At(b, o + 10),
             text_background_color_index |-> At(b, o + 11),
             data |-> d.val,
             graphic_control_extension |-> d.cx.graphic_control_extension])

PlainTextExtension_decode(c, b) ==
    IF ~InBounds(b, c.offset, 1) THEN Panic(c)
    ELSE IF At(b, c.offset) # PlainTextExtension_BLOCK_SIZE
    THEN Fail(c, Error("invalid block size", c.offset,
                       Some(PlainTextExtension_BLOCK_SIZE),
                       <<At(b, c.offset)>>))
    ELSE IF ~InBounds(b, c.offset + 1, 12) THEN Panic(Advance(c, 1))
    ELSE PlainTextExtension_new(
             b, c.offset + 1, DataSubBlocks_decode(Advance(c, 13), b))

\* GraphicControlExtension_decode accepting any byte after the four fields
GraphicControlExtension_decode_any_terminator(c, b) ==
    IF ~InBounds(b, c.offset, 1) THEN Panic(c)
    ELSE IF At(b, c.offset) # GraphicControlExtension_BLOCK_SIZE
    THEN Fail(c, Error("invalid block size", c.offset,
                       Some(GraphicControlExtension_BLOCK_SIZE),
                       <<At(b, c.offset)>>))
    ELSE IF ~InBounds(b, c.offset + 1, 5) THEN Panic(Advance(c, 1))
    ELSE Ok(Advance(c, 6),
            [packed_fields |-> At(b, c.offset + 1),
             delay_time |-> ReadU16(b, c.offset + 2),
             transparent_color_index |-> At(b, c.offset + 4)])

GraphicControlExtension_decode(c, b) ==
    IF ~InBounds(b, c.offset, 1) THEN Panic(c)
    ELSE IF At(b, c.offset) # GraphicControlExtension_BLOCK_SIZE
    THEN Fail(c, Error("invalid block size", c.offset,
                       Some(GraphicControlExtension_BLOCK_SIZE),
                       <<At(b, c.offset)>>))
    ELSE IF ~InBounds(b, c.offset + 1, 5) THEN Panic(Advance(c, 1))
    ELSE IF At(b, c.offset + 5) # BLOCK_TERMINATOR
    THEN Fail(Advance(c, 5),
              Error("invalid block terminator", c.offset + 5,
                    Some(BLOCK_TERMINATOR), <<At(b, c.offset + 5)>>))
    ELSE Ok(Advance(c, 6),
            [packed_fields |-> At(b, c.offset + 1),
             delay_time |-> ReadU16(b, c.offset + 2),
             transparent_color_index |-> At(b, c.offset + 4)])

\* line 328: d is what DataSubBlocks::decode returned
CommentExtension_new(d) ==
    IF d.st = "Panic" THEN d ELSE Ok(d.cx, [data |-> d.val])

CommentExtension_decode(c, b) ==
    CommentExtension_new(DataSubBlocks_decode(c, b))

\* lines 384-387: d is what DataSubBlocks::decode returned
TableBasedImageData_new(lzw_minimum_code_size, d) ==
    IF d.st = "Panic" THEN d
    ELSE Ok(d.cx, [lzw_minimum_code_size |-> lzw_minimum_code_size,
                   image_data |-> d.val])

TableBasedImageData_decode(c, b) ==
    IF ~InBounds(b, c.offset, 1) THEN Panic(c)
    ELSE TableBasedImageData_new(At(b, c.offset),
                                 DataSubBlocks_decode(Advance(c, 1), b))

\* ImageDescriptor_new reading the pending slot without clearing it
ImageDescriptor_new_clone(b, o, local_color_table, d) ==
    IF d.st = "Panic" THEN d
    ELSE Ok(d.cx,
            [image_left_position |-> ReadU16(b, o),
             image_top_position |-> ReadU16(b, o + 2),
             image_width |-> ReadU16(b, o + 4),
             image_height |-> ReadU16(b, o + 6),
             packed_fields |-> At(b, o + 8),
             local_color_table |-> local_color_table,
             image_data |-> d.val,
             graphic_control_extension |-> d.cx.graphic_control_extension])

\* lines 366-375: d is what TableBasedImageData::decode returned
ImageDescriptor_new(b, o, local_color_table, d) ==
    IF d.st = "Panic" THEN d
    ELSE Ok([d.cx EXCEPT !.graphic_control_extension = None],
            [image_left_position |-> ReadU16(b, o),
             image_top_position |-> ReadU16(b, o + 2),
             image_width |-> ReadU16(b, o + 4),
             image_height |-> ReadU16(b, o + 6),
             packed_fields |-> At(b, o + 8),
             local_color_table |-> local_color_table,
             image_data |-> d.val,
             graphic_control_extension |-> d.cx.graphic_control_extension])

\* lines 345-364: c is the cursor after the packed fields
ImageDescriptor_table(c, b, o, flag, size) ==
    IF flag = 1
    THEN IF ~InBounds(b, c.offset, size) THEN Panic(c)
         ELSE ImageDescriptor_new(
                  b, o, Some([pixels |-> Slice(b, c.offset, c.offset + size)]),
                  TableBasedImageData_decode(Advance(c, size), b))
    ELSE ImageDescriptor_new(b, o, None, TableBasedImageData_decode(c, b))

ImageDescriptor_decode(c, b) ==
    IF ~InBounds(b, c.offset, 9) THEN Panic(c)
    ELSE ImageDescriptor_table(
             Advance(c, 9), b, c.offset,
             local_color_table_flag(At(b, c.offset + 8)),
             ColorTableBytes(local_color_table_size(At(b, c.offset + 8))))

\* enum ExtensionBlock: a tagged value
Tagged(t, v) == [tag |-> t, ext |-> v]

\* Ok(Some(Self::T(X::decode(cx, bytes)?)))
Wrap(t, r) == IF r.st = "Ok" THEN Ok(r.cx, Some(Tagged(t, r.val))) ELSE r

\* lines 167-189: c is the cursor after the label
ExtensionBlock_match(label, c, b, dc) ==
    IF label = GraphicControlExtension_LABEL
    THEN Wrap("GraphicControl", GraphicControlExtension_decode(c, b))
    ELSE IF label = CommentExtension_LABEL
    THEN IF dc THEN Ok(c, None)
         ELSE Wrap("Comment", CommentExtension_decode(c, b))
    ELSE IF label = PlainTextExtension_LABEL
    THEN Wrap("PlainText", PlainTextExtension_decode(c, b))
    ELSE IF label = ApplicationExtension_LABEL
    THEN Wrap("Application", ApplicationExtension_decode(c, b))
    ELSE Fail(c, Error("invalid extension label", c.offset, None, <<label>>))

ExtensionBlock_decode(c, b, dc) ==
    IF ~InBounds(b, c.offset, 1) THEN Panic(c)
    ELSE ExtensionBlock_match(At(b, c.offset), Advance(c, 1), b, dc)

(***************************************************************************)
(* encoder.rs                                                               *)
(***************************************************************************)
\* data.extend_from_slice(&x) for each x of slices, in order
RECURSIVE extend_from_slice(_)
extend_from_slice(slices) ==
    IF slices = <<>> THEN <<>>
    ELSE Head(slices) \o extend_from_slice(Tail(slices))

Version_encode(v) == IF v = "V87a" THEN <<56, 55, 97>> ELSE <<56, 57, 97>>

LogicalScreenDescriptor_encode(self) ==
    WriteU16(self.logical_screen_width)
    \o WriteU16(self.logical_screen_height)
    \o <<self.packed_fields, self.background_color_index,
         self.pixel_aspect_ratio>>
    \o (IF IsSome(self.global_color_table)
        THEN Unwrap(self.global_color_table).pixels ELSE <<>>)

DataSubBlock_encode(self) == <<self.block_size>> \o self.data

DataSubBlocks_encode(self) ==
    extend_from_slice([i \in 1..Len(self.blocks) |->
                          DataSubBlock_encode(self.blocks[i])])
    \o <<BLOCK_TERMINATOR>>

ApplicationExtension_encode(self) ==
    <<INTRODUCER, ApplicationExtension_LABEL, ApplicationExtension_BLOCK_SIZE>>
    \o self.identifier \o self.authentication_code
    \o DataSubBlocks_encode(self.data)

GraphicControlExtension_encode(self) ==
    <<INTRODUCER, GraphicControlExtension_LABEL,
      GraphicControlExtension_BLOCK_SIZE, self.packed_fields>>
    \o WriteU16(self.delay_time)
    \o <<self.transparent_color_index, BLOCK_TERMINATOR>>

PlainTextExtension_encode(self) ==
    <<INTRODUCER, PlainTextExtension_LABEL>>
    \o (IF IsSome(self.graphic_control_extension)
        THEN GraphicControlExtension_encode(
                 Unwrap(self.graphic_control_extension))
        ELSE <<>>)
    \o <<PlainTextExtension_BLOCK_SIZE>>
    \o WriteU16(self.text_grid_left_position)
    \o WriteU16(self.text_grid_top_position)
    \o WriteU16(self.text_grid_width)
    \o WriteU16(self.text_grid_height)
    \o <<self.character_cell_width, self.character_cell_height,
         self.text_foreground_color_index, self.text_background_color_index>>
    \o DataSubBlocks_encode(self.data)

CommentExtension_encode(self) ==
    <<INTRODUCER, CommentExtension_LABEL>> \o DataSubBlocks_encode(self.data)

TableBasedImageData_encode(self) ==
    <<self.lzw_minimum_code_size>> \o DataSubBlocks_encode(self.image_data)

\* ImageDescriptor_encode without the test of the target version
ImageDescriptor_encode_any_version(self, v) ==
    (IF IsSome(self.graphic_control_extension)
     THEN GraphicControlExtension_encode(
              Unwrap(self.graphic_control_extension))
     ELSE <<>>)
    \o <<SEPARATOR>>
    \o WriteU16(self.image_left_position)
    \o WriteU16(self.image_top_position)
    \o WriteU16(self.image_width)
    \o WriteU16(self.image_height)
    \o <<self.packed_fields>>
    \o (IF IsSome(self.local_color_table)
        THEN Unwrap(self.local_color_table).pixels ELSE <<>>)
    \o TableBasedImageData_encode(self.image_data)

ImageDescriptor_encode(self, v) ==
    (IF IsSome(self.graphic_control_extension) /\ v # "V87a"
     THEN GraphicControlExtension_encode(
              Unwrap(self.graphic_control_extension))
     ELSE <<>>)
    \o <<SEPARATOR>>
    \o WriteU16(self.image_left_position)
    \o WriteU16(self.image_top_position)
    \o WriteU16(self.image_width)
    \o WriteU16(self.image_height)
    \o <<self.packed_fields>>
    \o (IF IsSome(self.local_color_table)
        THEN Unwrap(self.local_color_table).pixels ELSE <<>>)
    \o TableBasedImageData_encode(self.image_data)

\* enum GraphicRenderingBlock: [tag |-> "PlainText" | "Image", ext |-> ...]
GraphicRenderingBlock_encode(self, v) ==
    IF self.tag = "PlainText" THEN PlainTextExtension_encode(self.ext)
    ELSE ImageDescriptor_encode(self.ext, v)

EncodeApplicationExtensions(self, v) ==
    IF v = "V87a" THEN <<>>
    ELSE extend_from_slice([i \in 1..Len(self.application_extensions) |->
             ApplicationExtension_encode(self.application_extensions[i])])

\* EncodeCommentExtensions gated by the target version alone
EncodeCommentExtensions_any_flag(self, v, dc) ==
    IF v # "V87a"
    THEN extend_from_slice([i \in 1..Len(self.comment_extensions) |->
             CommentExtension_encode(self.comment_extensions[i])])
    ELSE <<>>

EncodeCommentExtensions(self, v, dc) ==
    IF ~dc /\ v # "V87a"
    THEN extend_from_slice([i \in 1..Len(self.comment_extensions) |->
             CommentExtension_encode(self.comment_extensions[i])])
    ELSE <<>>

EncodeGraphicRenderingBlocks(self, v) ==
    LET One(block) ==
            IF block.tag = "Image" THEN GraphicRenderingBlock_encode(block, v)
            ELSE IF v = "V87a" THEN <<>>
            ELSE GraphicRenderingBlock_encode(block, v)
    IN extend_from_slice([i \in 1..Len(self.graphic_rendering_blocks) |->
                             One(self.graphic_rendering_blocks[i])])

\* GifData_encode with the comment loop before the application loop
GifData_encode_comments_first(self, v, dc) ==
    SIGNATURE
    \o Version_encode(v)
    \o LogicalScreenDescriptor_encode(self.logical_screen_descriptor)
    \o EncodeCommentExtensions(self, v, dc)
    \o EncodeApplicationExtensions(self, v)
    \o EncodeGraphicRenderingBlocks(self, v)
    \o <<TRAILER>>

\* GifData_encode writing the document's own version
GifData_encode_own_version(self, v, dc) ==
    SIGNATURE
    \o Version_encode(self.version)
    \o LogicalScreenDescriptor_encode(self.logical_screen_descriptor)
    \o EncodeApplicationExtensions(self, v)
    \o EncodeCommentExtensions(self, v, dc)
    \o EncodeGraphicRenderingBlocks(self, v)
    \o <<TRAILER>>

GifData_encode(self, v, dc) ==
    SIGNATURE
    \o Version_encode(v)
    \o LogicalScreenDescriptor_encode(self.logical_screen_descriptor)
    \o EncodeApplicationExtensions(self, v)
    \o EncodeCommentExtensions(self, v, dc)
    \o EncodeGraphicRenderingBlocks(self, v)
    \o <<TRAILER>>

(***************************************************************************)
(* decoder.rs, decode: the locals of one call as a record m, and one step   *)
(* of the call per position.                                                *)
(***************************************************************************)
Context_default == [offset |-> 0, graphic_control_extension |-> None]

Start == [pc |-> "Signature",
          cx |-> Context_default,
          version |-> "None",
          logical_screen_descriptor |-> None,
          application_extensions |-> <<>>,
          graphic_rendering_blocks |-> <<>>,
          comment_extensions |-> <<>>,
          err |-> NoError,
          result |-> None]

Terminal == {"Done", "Failed", "Panic"}

Failed(m, c, e) == [m EXCEPT !.pc = "Failed", !.cx = c, !.err = e]
Panicked(m, c) == [m EXCEPT !.pc = "Panic", !.cx = c]

\* SignatureStep reporting the offset after the byte
SignatureStep_offset_after(m, b) ==
    IF ~InBounds(b, m.cx.offset, 1) THEN Panicked(m, m.cx)
    ELSE IF At(b, m.cx.offset) # SIGNATURE[m.cx.offset + 1]
    THEN Failed(m, Advance(m.cx, 1),
                Error("invalid signature", m.cx.offset + 1,
                      Some(SIGNATURE[m.cx.offset + 1]),
                      <<At(b, m.cx.offset)>>))
    ELSE [m EXCEPT !.cx = Advance(m.cx, 1),
                   !.pc = IF m.cx.offset = 2 THEN "Version" ELSE "Signature"]

\* lines 12-35: one of the three signature checks, at offset 0, 1 or 2
SignatureStep(m, b) ==
    IF ~InBounds(b, m.cx.offset, 1) THEN Panicked(m, m.cx)
    ELSE IF At(b, m.cx.offset) # SIGNATURE[m.cx.offset + 1]
    THEN Failed(m, m.cx, Error("invalid signature", m.cx.offset,
                               Some(SIGNATURE[m.cx.offset + 1]),
                               <<At(b, m.cx.offset)>>))
    ELSE [m EXCEPT !.cx = Advance(m.cx, 1),
                   !.pc = IF m.cx.offset = 2 THEN "Version" ELSE "Signature"]

\* line 37: r is what Version::decode returned
VersionGot(m, r) ==
    IF r.st = "Panic" THEN Panicked(m, r.cx)
    ELSE IF r.st = "Err" THEN Failed(m, r.cx, r.err)
    ELSE [m EXCEPT !.cx = r.cx, !.version = r.val,
                   !.pc = "ScreenDescriptor"]

VersionStep(m, b) == VersionGot(m, Version_decode(m.cx, b))

\* line 40: r is what LogicalScreenDescriptor::decode returned
ScreenDescriptorGot(m, r) ==
    IF r.st = "Panic" THEN Panicked(m, r.cx)
    ELSE [m EXCEPT !.cx = r.cx, !.logical_screen_descriptor = Some(r.val),
                   !.pc = "Reading"]

ScreenDescriptorStep(m, b) ==
    ScreenDescriptorGot(m, LogicalScreenDescriptor_decode(m.cx, b))

\* RouteExtension failing on a plain-text block without a global palette
RouteExtension_plain_text_error(m, c, block) ==
    IF block.tag = "GraphicControl"
    THEN [m EXCEPT !.cx = [c EXCEPT !.graphic_control_extension =
                                        Some(block.ext)]]
    ELSE IF block.tag = "Application"
    THEN [m EXCEPT !.cx = c,
                   !.application_extensions = Append(@, block.ext)]
    ELSE IF block.tag = "PlainText"
    THEN IF ~IsSome(Unwrap(m.logical_screen_descriptor).global_color_table)
         THEN Failed(m, c, Error("no global color table", c.offset, None,
                                 <<>>))
         ELSE [m EXCEPT !.cx = c,
                        !.graphic_rendering_blocks =
                            Append(@, Tagged("PlainText", block.ext))]
    ELSE [m EXCEPT !.cx = c, !.comment_extensions = Append(@, block.ext)]

\* RouteExtension putting the modifier back when it drops a plain-text block
RouteExtension_restore_pending(m, c, block) ==
    IF block.tag = "GraphicControl"
    THEN [m EXCEPT !.cx = [c EXCEPT !.graphic_control_extension =
                                        Some(block.ext)]]
    ELSE IF block.tag = "Application"
    THEN [m EXCEPT !.cx = c,
                   !.application_extensions = Append(@, block.ext)]
    ELSE IF block.tag = "PlainText"
    THEN IF ~IsSome(Unwrap(m.logical_screen_descriptor).global_color_table)
         THEN [m EXCEPT !.cx = [c EXCEPT !.graphic_control_extension =
                                             m.cx.graphic_control_extension]]
         ELSE [m EXCEPT !.cx = c,
                        !.graphic_rendering_blocks =
                            Append(@, Tagged("PlainText", block.ext))]
    ELSE [m EXCEPT !.cx = c, !.comment_extensions = Append(@, block.ext)]

\* RouteExtension keeping a modifier that is already pending
RouteExtension_keep_first(m, c, block) ==
    IF block.tag = "GraphicControl"
    THEN IF IsSome(c.graphic_control_extension) THEN [m EXCEPT !.cx = c]
         ELSE [m EXCEPT !.cx = [c EXCEPT !.graphic_control_extension =
                                             Some(block.ext)]]
    ELSE IF block.tag = "Application"
    THEN [m EXCEPT !.cx = c,
                   !.application_extensions = Append(@, block.ext)]
    ELSE IF block.tag = "PlainText"
    THEN IF ~IsSome(Unwrap(m.logical_screen_descriptor).global_color_table)
         THEN [m EXCEPT !.cx = c]
         ELSE [m EXCEPT !.cx = c,
                        !.graphic_rendering_blocks =
                            Append(@, Tagged("PlainText", block.ext))]
    ELSE [m EXCEPT !.cx = c, !.comment_extensions = Append(@, block.ext)]

\* lines 61-78: the match on the decoded extension block
RouteExtension(m, c, block) ==
    IF block.tag = "GraphicControl"
    THEN [m EXCEPT !.cx = [c EXCEPT !.graphic_control_extension =
                                        Some(block.ext)]]
    ELSE IF block.tag = "Application"
    THEN [m EXCEPT !.cx = c,
                   !.application_extensions = Append(@, block.ext)]
    ELSE IF block.tag = "PlainText"
    THEN IF ~IsSome(Unwrap(m.logical_screen_descriptor).global_color_table)
         THEN [m EXCEPT !.cx = c]
         ELSE [m EXCEPT !.cx = c,
                        !.graphic_rendering_blocks =
                            Append(@, Tagged("PlainText", block.ext))]
    ELSE [m EXCEPT !.cx = c, !.comment_extensions = Append(@, block.ext)]

\* lines 54-79: r is what ExtensionBlock::decode returned
ExtensionGot(m, r) ==
    IF r.st = "Panic" THEN Panicked(m, r.cx)
    ELSE IF r.st = "Err" THEN Failed(m, r.cx, r.err)
    ELSE IF IsSome(r.val) THEN RouteExtension(m, r.cx, Unwrap(r.val))
    ELSE [m EXCEPT !.cx = r.cx]

\* lines 52-80
ExtensionArm(m, b, dc) ==
    ExtensionGot(m, ExtensionBlock_decode(Advance(m.cx, 1), b, dc))

\* ImageGot putting the image at the front of the list
ImageGot_push_front(m, r) ==
    IF r.st = "Panic" THEN Panicked(m, r.cx)
    ELSE [m EXCEPT !.cx = r.cx,
                   !.graphic_rendering_blocks =
                       <<Tagged("Image", r.val)>> \o @]

\* lines 83-86: r is what ImageDescriptor::decode returned
ImageGot(m, r) ==
    IF r.st = "Panic" THEN Panicked(m, r.cx)
    ELSE [m EXCEPT !.cx = r.cx,
                   !.graphic_rendering_blocks =
                       Append(@, Tagged("Image", r.val))]

\* lines 81-87
ImageArm(m, b) == ImageGot(m, ImageDescriptor_decode(Advance(m.cx, 1), b))

\* TrailerArm refusing a stream that ends with a pending modifier
TrailerArm_strict(m) ==
    IF IsSome(m.cx.graphic_control_extension)
    THEN Failed(m, m.cx, Error("unused graphic control", m.cx.offset, None,
                               None))
    ELSE [m EXCEPT !.pc = "Done",
                   !.result = Some(
                       [version |-> m.version,
                        logical_screen_descriptor |->
                            Unwrap(m.logical_screen_descriptor),
                        application_extensions |-> m.application_extensions,
                        graphic_rendering_blocks |->
                            m.graphic_rendering_blocks,
                        comment_extensions |-> m.comment_extensions])]

\* lines 88-91 and 96-102
TrailerArm(m) ==
    [m EXCEPT !.pc = "Done",
              !.result = Some(
                  [version |-> m.version,
                   logical_screen_descriptor |->
                       Unwrap(m.logical_screen_descriptor),
                   application_extensions |-> m.application_extensions,
                   graphic_rendering_blocks |-> m.graphic_rendering_blocks,
                   comment_extensions |-> m.comment_extensions])]

\* UnknownArm skipping the byte
UnknownArm_skip(m, b) == [m EXCEPT !.cx = Advance(m.cx, 1)]

\* line 92
UnknownArm(m, b) ==
    Failed(m, m.cx, Error("unknown byte", m.cx.offset, None,
                          <<At(b, m.cx.offset)>>))

\* LoopStep taking the end of the buffer for the end of the stream
LoopStep_end_of_buffer(m, b, dc) ==
    IF ~InBounds(b, m.cx.offset, 1) THEN TrailerArm(m)
    ELSE IF At(b, m.cx.offset) = INTRODUCER THEN ExtensionArm(m, b, dc)
    ELSE IF At(b, m.cx.offset) = SEPARATOR THEN ImageArm(m, b)
    ELSE IF At(b, m.cx.offset) = TRAILER THEN TrailerArm(m)
    ELSE UnknownArm(m, b)

\* lines 50-94: one iteration of the loop
LoopStep(m, b, dc) ==
    IF ~InBounds(b, m.cx.offset, 1) THEN Panicked(m, m.cx)
    ELSE IF At(b, m.cx.offset) = INTRODUCER THEN ExtensionArm(m, b, dc)
    ELSE IF At(b, m.cx.offset) = SEPARATOR THEN ImageArm(m, b)
    ELSE IF At(b, m.cx.offset) = TRAILER THEN TrailerArm(m)
    ELSE UnknownArm(m, b)

Step(m, b, dc) ==
    IF m.pc = "Signature" THEN SignatureStep(m, b)
    ELSE IF m.pc = "Version" THEN VersionStep(m, b)
    ELSE IF m.pc = "ScreenDescriptor" THEN ScreenDescriptorStep(m, b)
    ELSE LoopStep(m, b, dc)

RECURSIVE Run(_, _, _)
Run(m, b, dc) == IF m.pc \in Terminal THEN m ELSE Run(Step(m, b, dc), b, dc)

\* pub fn decode(bytes, discard_comments)
decode(b, dc) == Run(Start, b, dc)

(***************************************************************************)
(* The files handed to decode (main.rs line 13): a signature, a version     *)
(* string, a screen descriptor, up to MaxBlocks blocks and the trailer, in  *)
(* the byte layout the decoders read, whole or cut short.  Each piece is    *)
(* its literal bytes; a graphic control extension also names the fields     *)
(* those bytes carry.                                                       *)
(***************************************************************************)
Piece(k, w, g) == [kind |-> k, wire |-> w, gce |-> g]

GceA == Piece("gce", <<33, 249, 4, 5, 1, 2, 7, 0>>,
              Some([packed_fields |-> 5, delay_time |-> 258,
                    transparent_color_index |-> 7]))
GceB == Piece("gce", <<33, 249, 4, 8, 0, 10, 0, 0>>,
              Some([packed_fields |-> 8, delay_time |-> 10,
                    transparent_color_index |-> 0]))
CommentHi == Piece("comment", <<33, 254, 2, 72, 105, 0>>, None)
AppLoop == Piece("application",
                 <<33, 255, 11, 78, 69, 84, 83, 67, 65, 80, 69, 50, 46, 48,
                   3, 1, 0, 0, 0>>, None)
TextA == Piece("plaintext",
               <<33, 1, 12, 0, 1, 0, 2, 0, 3, 0, 4, 8, 16, 1, 0, 1, 65, 0>>,
               None)
ImageA == Piece("image",
                <<44, 0, 0, 0, 0, 0, 1, 0, 1, 0, 2, 2, 76, 1, 0>>, None)
ImageB == Piece("image",
                <<44, 0, 1, 0, 1, 0, 2, 0, 2, 128, 10, 20, 30, 40, 50, 60,
                  2, 1, 68, 0>>, None)

BadLabel == Piece("bad", <<33, 2, 0>>, None)
GceBadSize == Piece("bad", <<33, 249, 5, 5, 1, 2, 7, 0>>, None)
GceBadTerminator == Piece("bad", <<33, 249, 4, 5, 1, 2, 7, 1>>, None)
AppBadSize == Piece("bad",
                    <<33, 255, 12, 78, 69, 84, 83, 67, 65, 80, 69, 50, 46,
                      48, 0>>, None)
TextBadSize == Piece("bad",
                     <<33, 1, 11, 0, 1, 0, 2, 0, 3, 0, 4, 8, 16, 1, 0, 0>>,
                     None)
UnknownByte == Piece("bad", <<7>>, None)

GoodPieces == {GceA, GceB, CommentHi, AppLoop, TextA, ImageA, ImageB}
BadPieces == {BadLabel, GceBadSize, GceBadTerminator, AppBadSize,
              TextBadSize, UnknownByte}

ScreenPlain == [wire |-> <<0, 1, 0, 1, 0, 0, 0>>, palette |-> FALSE]
ScreenPalette == [wire |-> <<1, 2, 3, 4, 128, 1, 49, 255, 0, 0, 0, 0, 255>>,
                  palette |-> TRUE]
Screens == {ScreenPlain, ScreenPalette}

Signatures == {<<71, 73, 70>>, <<88, 73, 70>>, <<71, 88, 70>>,
               <<71, 73, 88>>, <<88, 88, 70>>}
VersionStrings == {<<56, 55, 97>>, <<56, 57, 97>>, <<56, 56, 97>>}
Versions == {"V87a", "V89a"}

SeqsUpTo(S, n) == UNION {[1..k -> S] : k \in 0..n}

\* good blocks only, or good blocks and one malformed block at the end
BlockLists ==
    SeqsUpTo(GoodPieces, MaxBlocks)
    \cup {Append(p, x) : p \in SeqsUpTo(GoodPieces, MaxBlocks - 1),
                         x \in BadPieces}

WireOf(p) == p.wire
Stream(sig, ver, screen, blocks) ==
    sig \o ver \o screen.wire
    \o extend_from_slice([i \in 1..Len(blocks) |-> WireOf(blocks[i])])
    \o <<TRAILER>>

GoodHeader(sig, ver) == sig = SIGNATURE /\ ver # <<56, 56, 97>>
AllGood(blocks) == \A i \in 1..Len(blocks) : blocks[i].kind # "bad"

Init ==
    \E sig \in Signatures, ver \in VersionStrings, screen \in Screens,
       blocks \in BlockLists :
        /\ ~GoodHeader(sig, ver) => blocks = <<>> /\ screen = ScreenPlain
        /\ LET full == Stream(sig, ver, screen, blocks)
               cuts == IF GoodHeader(sig, ver) /\ AllGood(blocks)
                          /\ Len(blocks) <= MaxCutBlocks
                       THEN 0..Len(full) ELSE {Len(full)}
           IN \E keep \in cuts :
                /\ bytes = SubSeq(full, 1, keep)
                /\ input = [sig |-> sig, ver |-> ver, screen |-> screen,
                            blocks |-> blocks, full |-> full]
        /\ discard_comments \in BOOLEAN
        /\ pc = Start.pc
        /\ cx = Start.cx
        /\ version = Start.version
        /\ logical_screen_descriptor = Start.logical_screen_descriptor
        /\ application_extensions = Start.application_extensions
        /\ graphic_rendering_blocks = Start.graphic_rendering_blocks
        /\ comment_extensions = Start.comment_extensions
        /\ err = Start.err
        /\ result = Start.result
        /\ target = None
        /\ out = None
        /\ chain = None
        /\ color_tables = None
        /\ field = None

(***************************************************************************)
(* The steps of decode, and the encode call of main.rs line 15.             *)
(***************************************************************************)
Locals == [pc |-> pc, cx |-> cx, version |-> version,
           logical_screen_descriptor |-> logical_screen_descriptor,
           application_extensions |-> application_extensions,
           graphic_rendering_blocks |-> graphic_rendering_blocks,
           comment_extensions |-> comment_extensions,
           err |-> err, result |-> result]

Becomes(m) ==
    /\ pc' = m.pc
    /\ cx' = m.cx
    /\ version' = m.version
    /\ logical_screen_descriptor' = m.logical_screen_descriptor
    /\ application_extensions' = m.application_extensions
    /\ graphic_rendering_blocks' = m.graphic_rendering_blocks
    /\ comment_extensions' = m.comment_extensions
    /\ err' = m.err
    /\ result' = m.result
    /\ UNCHANGED <<input, bytes, discard_comments, target, out, chain,
                 color_tables, field>>

AtMarker == pc = "Reading" /\ InBounds(bytes, cx.offset, 1)

DecodeSignature ==
    /\ pc = "Signature"
    /\ Becomes(SignatureStep(Locals, bytes))

DecodeVersion ==
    /\ pc = "Version"
    /\ Becomes(VersionStep(Locals, bytes))

DecodeScreenDescriptor ==
    /\ pc = "ScreenDescriptor"
    /\ Becomes(ScreenDescriptorStep(Locals, bytes))

DecodeExtension ==
    /\ AtMarker
    /\ At(bytes, cx.offset) = INTRODUCER
    /\ Becomes(LoopStep(Locals, bytes, discard_comments))

DecodeImage ==
    /\ AtMarker
    /\ At(bytes, cx.offset) = SEPARATOR
    /\ Becomes(LoopStep(Locals, bytes, discard_comments))

DecodeTrailer ==
    /\ AtMarker
    /\ At(bytes, cx.offset) = TRAILER
    /\ Becomes(LoopStep(Locals, bytes, discard_comments))

DecodeUnknown ==
    /\ AtMarker
    /\ At(bytes, cx.offset) \notin {INTRODUCER, SEPARATOR, TRAILER}
    /\ Becomes(LoopStep(Locals, bytes, discard_comments))

ReadPastEnd ==
    /\ pc = "Reading"
    /\ ~InBounds(bytes, cx.offset, 1)
    /\ Becomes(LoopStep(Locals, bytes, discard_comments))

Encode ==
    /\ pc = "Done"
    /\ out = None
    /\ \E v \in Versions, dc \in BOOLEAN :
        /\ target' = Some([version |-> v, discard_comments |-> dc])
        /\ out' = Some(GifData_encode(Unwrap(result), v, dc))
    /\ UNCHANGED <<input, bytes, discard_comments, pc, cx, version,
                   logical_screen_descriptor, application_extensions,
                   graphic_rendering_blocks, comment_extensions, err, result,
                   chain, color_tables, field>>

Next ==
    \/ DecodeSignature
    \/ DecodeVersion
    \/ DecodeScreenDescriptor
    \/ DecodeExtension
    \/ DecodeImage
    \/ DecodeTrailer
    \/ DecodeUnknown
    \/ ReadPastEnd
    \/ Encode

Spec == Init /\ [][Next]_vars

(***************************************************************************)
(* The chain codec on its own: DataSubBlocks::encode applied to a chain of  *)
(* up to MaxChunks sub-blocks of 1, 2 or 255 bytes, and                     *)
(* DataSubBlocks::decode applied to the bytes it wrote, placed in a buffer  *)
(* after `before` and in front of `after`.  decode is not running here.     *)
(***************************************************************************)
DataSubBlock_new(n, byte) == [block_size |-> n, data |-> [i \in 1..n |-> byte]]

Chunks == {DataSubBlock_new(n, byte) : n \in {1, 2, 255}, byte \in {0, 65}}

Chains == {[blocks |-> blocks] : blocks \in SeqsUpTo(Chunks, MaxChunks)}

Paddings == {<<>>, <<0, 9>>}

ChainInit ==
    /\ chain \in {[self |-> self, encoded |-> None, before |-> <<>>,
                   decoded |-> None] : self \in Chains}
    /\ input = None
    /\ bytes = <<>>
    /\ discard_comments = FALSE
    /\ pc = "Idle"
    /\ cx = Start.cx
    /\ version = Start.version
    /\ logical_screen_descriptor = Start.logical_screen_descriptor
    /\ application_extensions = Start.application_extensions
    /\ graphic_rendering_blocks = Start.graphic_rendering_blocks
    /\ comment_extensions = Start.comment_extensions
    /\ err = Start.err
    /\ result = Start.result
    /\ target = None
    /\ out = None
    /\ color_tables = None
    /\ field = None

ChainUnchanged ==
    UNCHANGED <<input, bytes, discard_comments, pc, cx, version,
                logical_screen_descriptor, application_extensions,
                graphic_rendering_blocks, comment_extensions, err, result,
                target, out, color_tables, field>>

EncodeChain ==
    /\ chain.encoded = None
    /\ chain' = [chain EXCEPT
                    !.encoded = Some(DataSubBlocks_encode(chain.self))]
    /\ ChainUnchanged

DecodeChain ==
    /\ IsSome(chain.encoded)
    /\ chain.decoded = None
    /\ \E before \in Paddings, after \in Paddings :
          chain' = [chain EXCEPT
                      !.before = before,
                      !.decoded = Some(DataSubBlocks_decode(
                          [Context_default EXCEPT !.offset = Len(before)],
                          before \o Unwrap(chain.encoded) \o after))]
    /\ ChainUnchanged

ChainNext == EncodeChain \/ DecodeChain

ChainSpec == ChainInit /\ [][ChainNext]_vars

(***************************************************************************)
(* Palettes: decode applied to a file of a screen descriptor and one image  *)
(* whose packed bytes run over both flag values and all eight size          *)
(* exponents, followed by ColorTable::get_pixel on a table it returned.     *)
(***************************************************************************)
\* bit 7 the table flag, bits 3..6 all clear or all set, bits 0..2 the size
PackedFields ==
    {flag * 128 + middle * 8 + size :
        flag \in {0, 1}, middle \in {0, 15}, size \in 0..7}

\* the palette bytes that follow a packed byte in the file: none without the
\* flag, else three bytes per entry that name the entry
TableBytes(packed, first) ==
    IF packed < 128 THEN <<>>
    ELSE [i \in 1..(3 * Pow2((packed % 8) + 1)) |->
              (first + 3 * ((i - 1) \div 3) + ((i - 1) % 3)) % 256]

PaletteFile(screen_packed, image_packed) ==
    SIGNATURE \o <<56, 57, 97>>
    \o <<1, 2, 3, 4, screen_packed, 1, 49>> \o TableBytes(screen_packed, 10)
    \o <<SEPARATOR, 0, 0, 0, 0, 0, 1, 0, 1, image_packed>>
    \o TableBytes(image_packed, 100)
    \o <<2, 2, 76, 1, 0>> \o <<TRAILER>>

PaletteInit ==
    /\ color_tables \in {[screen_packed |-> sp, image_packed |-> ip,
                     file |-> PaletteFile(sp, ip), decoded |-> None,
                     pixel |-> None] : sp \in PackedFields,
                                       ip \in PackedFields}
    /\ chain = None
    /\ field = None
    /\ input = None
    /\ bytes = <<>>
    /\ discard_comments = FALSE
    /\ pc = "Idle"
    /\ cx = Start.cx
    /\ version = Start.version
    /\ logical_screen_descriptor = Start.logical_screen_descriptor
    /\ application_extensions = Start.application_extensions
    /\ graphic_rendering_blocks = Start.graphic_rendering_blocks
    /\ comment_extensions = Start.comment_extensions
    /\ err = Start.err
    /\ result = Start.result
    /\ target = None
    /\ out = None

PaletteUnchanged ==
    UNCHANGED <<input, bytes, discard_comments, pc, cx, version,
                logical_screen_descriptor, application_extensions,
                graphic_rendering_blocks, comment_extensions, err, result,
                target, out, chain, field>>

DecodePaletteFile ==
    /\ color_tables.decoded = None
    /\ color_tables' = [color_tables EXCEPT
                      !.decoded = Some(decode(color_tables.file, FALSE))]
    /\ PaletteUnchanged

\* the tables of the returned document
GlobalTable ==
    Unwrap(Unwrap(color_tables.decoded).result)
        .logical_screen_descriptor.global_color_table
LocalTable ==
    Unwrap(Unwrap(color_tables.decoded).result)
        .graphic_rendering_blocks[1].ext.local_color_table

GetPixel(which, table, idx) ==
    /\ IsSome(table)
    /\ color_tables' = [color_tables EXCEPT
                      !.pixel = Some([table |-> which, idx |-> idx,
                                      got |-> ColorTable_get_pixel(
                                                  Unwrap(table), idx)])]

GetGlobalPixel ==
    /\ IsSome(color_tables.decoded)
    /\ Unwrap(color_tables.decoded).pc = "Done"
    /\ color_tables.pixel = None
    /\ \E idx \in {0, 1, Pow2((color_tables.screen_packed % 8) + 1) - 1} :
          GetPixel("global", GlobalTable, idx)
    /\ PaletteUnchanged

GetLocalPixel ==
    /\ IsSome(color_tables.decoded)
    /\ Unwrap(color_tables.decoded).pc = "Done"
    /\ color_tables.pixel = None
    /\ \E idx \in {0, 1, Pow2((color_tables.image_packed % 8) + 1) - 1} :
          GetPixel("local", LocalTable, idx)
    /\ PaletteUnchanged

PaletteNext == DecodePaletteFile \/ GetGlobalPixel \/ GetLocalPixel

PaletteSpec == PaletteInit /\ [][PaletteNext]_vars

(***************************************************************************)
(* The 16-bit fields.  A field of a structure is encoded from a value and   *)
(* decoded back, or decoded from two bytes and encoded back, through the    *)
(* encoder and the decoder of the structure that holds it.                  *)
(***************************************************************************)
U16 == 0..65535
U8 == 0..255

Fields == {"logical_screen_width", "logical_screen_height", "delay_time"}

\* the structure that holds the field, with the field set to x
FieldHolder(name, x) ==
    CASE name = "logical_screen_width" ->
            [logical_screen_width |-> x, logical_screen_height |-> 1,
             packed_fields |-> 0, background_color_index |-> 0,
             pixel_aspect_ratio |-> 0, global_color_table |-> None]
      [] name = "logical_screen_height" ->
            [logical_screen_width |-> 1, logical_screen_height |-> x,
             packed_fields |-> 0, background_color_index |-> 0,
             pixel_aspect_ratio |-> 0, global_color_table |-> None]
      [] name = "delay_time" ->
            [packed_fields |-> 5, delay_time |-> x,
             transparent_color_index |-> 7]

\* the bytes of the structure, with the two bytes of the field set to pair
FieldWire(name, pair) ==
    CASE name = "logical_screen_width" -> pair \o <<0, 1, 0, 0, 0>>
      [] name = "logical_screen_height" -> <<0, 1>> \o pair \o <<0, 0, 0>>
      [] name = "delay_time" ->
            <<INTRODUCER, GraphicControlExtension_LABEL,
              GraphicControlExtension_BLOCK_SIZE, 5>> \o pair \o
            <<7, BLOCK_TERMINATOR>>

\* offset of the field in the bytes of its structure
FieldOffset(name) ==
    CASE name = "logical_screen_width" -> 0
      [] name = "logical_screen_height" -> 2
      [] name = "delay_time" -> 4

FieldEncode(name, self) ==
    IF name = "delay_time" THEN GraphicControlExtension_encode(self)
    ELSE LogicalScreenDescriptor_encode(self)

\* the decoder of the structure, called where decode calls it: the graphic
\* control extension after its introducer and label
FieldDecode(name, wire) ==
    IF name = "delay_time"
    THEN GraphicControlExtension_decode(
             [Context_default EXCEPT !.offset = 2], wire)
    ELSE LogicalScreenDescriptor_decode(Context_default, wire)

FieldGet(name, self) ==
    CASE name = "logical_screen_width" -> self.logical_screen_width
      [] name = "logical_screen_height" -> self.logical_screen_height
      [] name = "delay_time" -> self.delay_time

FieldInit ==
    /\ \E n \in Fields :
          \/ \E x \in U16 :
                field = [name |-> n, first |-> "encode", value |-> Some(x),
                         wire |-> None, back |-> None]
          \/ \E hi \in U8, lo \in U8 :
                field = [name |-> n, first |-> "decode", value |-> None,
                         wire |-> Some(FieldWire(n, <<hi, lo>>)),
                         back |-> None]
    /\ chain = None
    /\ color_tables = None
    /\ input = None
    /\ bytes = <<>>
    /\ discard_comments = FALSE
    /\ pc = "Idle"
    /\ cx = Start.cx
    /\ version = Start.version
    /\ logical_screen_descriptor = Start.logical_screen_descriptor
    /\ application_extensions = Start.application_extensions
    /\ graphic_rendering_blocks = Start.graphic_rendering_blocks
    /\ comment_extensions = Start.comment_extensions
    /\ err = Start.err
    /\ result = Start.result
    /\ target = None
    /\ out = None

FieldUnchanged ==
    UNCHANGED <<input, bytes, discard_comments, pc, cx, version,
                logical_screen_descriptor, application_extensions,
                graphic_rendering_blocks, comment_extensions, err, result,
                target, out, chain, color_tables>>

\* encode of the structure holding the value
EncodeField ==
    /\ IsSome(field.value)
    /\ \/ /\ field.first = "encode"
          /\ field.wire = None
          /\ field' = [field EXCEPT !.wire =
                Some(FieldEncode(field.name,
                         FieldHolder(field.name, Unwrap(field.value))))]
       \/ /\ field.first = "decode"
          /\ field.back = None
          /\ field' = [field EXCEPT !.back =
                Some(FieldEncode(field.name,
                         FieldHolder(field.name, Unwrap(field.value))))]
    /\ FieldUnchanged

\* decode of the bytes of the structure
DecodeField ==
    /\ IsSome(field.wire)
    /\ \/ /\ field.first = "decode"
          /\ field.value = None
          /\ field' = [field EXCEPT !.value =
                Some(FieldGet(field.name,
                         FieldDecode(field.name, Unwrap(field.wire)).val))]
       \/ /\ field.first = "encode"
          /\ field.back = None
          /\ field' = [field EXCEPT !.back =
                Some(FieldGet(field.name,
                         FieldDecode(field.name, Unwrap(field.wire)).val))]
    /\ FieldUnchanged

FieldNext == EncodeField \/ DecodeField

FieldSpec == FieldInit /\ [][FieldNext]_vars

(***************************************************************************)
(* Vocabulary of the properties.                                            *)
(***************************************************************************)
Doc == Unwrap(result)
Out == Unwrap(out)
TargetVersion == Unwrap(target).version
TargetDiscard == Unwrap(target).discard_comments

\* the three bytes of a version tag, as the format writes them
VersionBytes(v) == IF v = "V87a" THEN <<56, 55, 97>> ELSE <<56, 57, 97>>

Indices(blocks) == [i \in 1..Len(blocks) |-> i]
KindCount(blocks, k) ==
    Cardinality({i \in 1..Len(blocks) : blocks[i].kind = k})
Rendering(p) == p.kind \in {"image", "plaintext"}

\* the positions in the file of the rendering blocks the document keeps
KeptRendering(blocks, palette) ==
    SelectSeq(Indices(blocks),
              LAMBDA i : blocks[i].kind = "image"
                         \/ (blocks[i].kind = "plaintext" /\ palette))

\* the graphic control extension that precedes position i in the file with
\* no rendering block in between, if there is one
Preceding(blocks, i) ==
    LET js == {j \in 1..(i - 1) :
                 /\ blocks[j].kind = "gce"
                 /\ \A k \in (j + 1)..(i - 1) : ~Rendering(blocks[k])}
    IN IF js = {} THEN None
       ELSE blocks[CHOOSE j \in js : \A k \in js : k <= j].gce

\* the bytes of the image blocks of the file, in file order
ImageWires(blocks) ==
    extend_from_slice([i \in 1..KindCount(blocks, "image") |->
        WireOf(SelectSeq(blocks, LAMBDA p : p.kind = "image")[i])])

GceOf(block) == block.ext.graphic_control_extension

(***************************************************************************)
(* C1.  Round-trip identity: every output of encode(V, false) decodes       *)
(* successfully with discard_comments = false, and encoding the decoded     *)
(* document with encode(V, false) gives the same bytes again.  (An output   *)
(* of encode(V, _) holds no block kind that is filtered for V.)             *)
(***************************************************************************)
RoundTrips(s, v, r) ==
    /\ r.pc = "Done"
    /\ GifData_encode(Unwrap(r.result), v, FALSE) = s

C1_RoundTripIdentity ==
    (IsSome(out) /\ ~TargetDiscard)
        => RoundTrips(Out, TargetVersion, decode(Out, FALSE))

(***************************************************************************)
(* C2.  Version filtering: the output of encode for target version 87a is   *)
(* exactly the signature, "87a", the screen descriptor, the image blocks    *)
(* of the file in order, each without a graphic control extension, and the  *)
(* trailer: no application, comment, plain-text or graphic control block.   *)
(***************************************************************************)
C2_VersionFiltering87a ==
    (IsSome(out) /\ TargetVersion = "V87a")
        => Out = <<71, 73, 70>> \o <<56, 55, 97>> \o input.screen.wire
                 \o ImageWires(input.blocks) \o <<59>>

\* a document with one application extension, one comment extension and one
\* plain-text block, encoded for 87a
C2_Witness ==
    /\ IsSome(out)
    /\ TargetVersion = "V87a"
    /\ Len(Doc.application_extensions) = 1
    /\ Len(Doc.comment_extensions) = 1
    /\ Len(Doc.graphic_rendering_blocks) = 1
    /\ Doc.graphic_rendering_blocks[1].tag = "PlainText"

(***************************************************************************)
(* C3.  Graphic-control attachment: in the decoded document every rendering *)
(* block carries exactly the fields of the graphic control extension that   *)
(* precedes it in the file with no rendering block in between, and carries  *)
(* none when there is no such extension.                                    *)
(***************************************************************************)
C3_GraphicControlAttachment ==
    pc = "Done" =>
        LET kept == KeptRendering(input.blocks, input.screen.palette) IN
        /\ Len(graphic_rendering_blocks) = Len(kept)
        /\ \A k \in 1..Len(kept) :
              GceOf(graphic_rendering_blocks[k])
                  = Preceding(input.blocks, kept[k])

\* [GraphicControl][Image][Image]: the first image carries the fields of the
\* extension, the second carries none
C3_Witness ==
    /\ pc = "Done"
    /\ input.blocks = <<GceA, ImageA, ImageB>>
    /\ GceOf(graphic_rendering_blocks[1])
           = Some([packed_fields |-> 5, delay_time |-> 258,
                   transparent_color_index |-> 7])
    /\ GceOf(graphic_rendering_blocks[2]) = None

(***************************************************************************)
(* C4.  A graphic control extension is never an element of the document:    *)
(* each list of the document holds one element per block of its own kind    *)
(* in the file, and a file that ends [GraphicControl][Trailer] decodes      *)
(* successfully to the document of the same file without that extension.    *)
(***************************************************************************)
WithoutLastBlock ==
    Stream(input.sig, input.ver, input.screen, SubSeq(input.blocks, 1,
                                                     Len(input.blocks) - 1))

EndsWithGraphicControl ==
    /\ bytes = input.full
    /\ Len(input.blocks) > 0
    /\ input.blocks[Len(input.blocks)].kind = "gce"

C4_GraphicControlNotTopLevel ==
    /\ pc = "Done" =>
          /\ Len(application_extensions)
                 = KindCount(input.blocks, "application")
          /\ Len(comment_extensions) = KindCount(input.blocks, "comment")
          /\ Len(graphic_rendering_blocks)
                 = Len(KeptRendering(input.blocks, input.screen.palette))
          /\ \A k \in 1..Len(graphic_rendering_blocks) :
                graphic_rendering_blocks[k].tag \in {"Image", "PlainText"}
    /\ (pc \in Terminal /\ EndsWithGraphicControl
        /\ decode(WithoutLastBlock, discard_comments).pc = "Done")
          => /\ pc = "Done"
             /\ result = decode(WithoutLastBlock, discard_comments).result

\* the file [GraphicControl][Trailer]: decoded, and nothing stored
C4_Witness ==
    /\ pc = "Done"
    /\ input.blocks = <<GceA>>
    /\ cx.graphic_control_extension = GceA.gce
    /\ Doc.application_extensions = <<>>
    /\ Doc.comment_extensions = <<>>
    /\ Doc.graphic_rendering_blocks = <<>>

(***************************************************************************)
(* C5.  Comment elision: whenever decode(bytes, false) succeeds,            *)
(* decode(bytes, true) succeeds too and returns the same document with an   *)
(* empty comment_extensions list.                                           *)
(***************************************************************************)
SameButComments(kept) ==
    /\ kept.pc = "Done"
    /\ pc = "Done"
    /\ result = Some([Unwrap(kept.result) EXCEPT !.comment_extensions = <<>>])

C5_CommentElision ==
    (pc \in Terminal /\ discard_comments
     /\ decode(bytes, FALSE).pc = "Done")
        => SameButComments(decode(bytes, FALSE))

(***************************************************************************)
(* C6.  Encoder framing: every output of encode begins with 'GIF', then the *)
(* three bytes of the target version passed to encode, then the screen      *)
(* descriptor (7 bytes, and the global palette when there is one), and its  *)
(* last byte is the trailer 0x3b.                                           *)
(***************************************************************************)
ScreenLength(screen) ==
    IF screen.palette THEN 7 + 3 * Pow2((screen.wire[5] % 8) + 1) ELSE 7

C6_EncoderFraming ==
    IsSome(out) =>
        /\ Len(input.screen.wire) = ScreenLength(input.screen)
        /\ Len(Out) >= 6 + ScreenLength(input.screen) + 1
        /\ SubSeq(Out, 1, 3) = <<71, 73, 70>>
        /\ SubSeq(Out, 4, 6) = VersionBytes(TargetVersion)
        /\ SubSeq(Out, 7, 6 + ScreenLength(input.screen)) = input.screen.wire
        /\ Out[Len(Out)] = 59

\* a file of version 89a with a global palette, encoded for 87a
C6_Witness ==
    /\ IsSome(out)
    /\ Doc.version = "V89a"
    /\ TargetVersion = "V87a"
    /\ input.screen.palette
    /\ SubSeq(Out, 4, 6) = <<56, 55, 97>>

(***************************************************************************)
(* C7.  Encoded output is a well-formed stream: for every decoded document  *)
(* and every target version V and discard_comments value dc, the output of  *)
(* encode decodes successfully (discard_comments = false) to the blocks of  *)
(* the document that are not filtered for (V, dc), each rendering block     *)
(* with its graphic control extension, or with none when V is 87a.          *)
(***************************************************************************)
DropGraphicControl(block) ==
    [block EXCEPT !.ext.graphic_control_extension = None]

NotFiltered(d, v, dc) ==
    [version |-> v,
     logical_screen_descriptor |-> d.logical_screen_descriptor,
     application_extensions |->
         IF v = "V87a" THEN <<>> ELSE d.application_extensions,
     comment_extensions |->
         IF dc \/ v = "V87a" THEN <<>> ELSE d.comment_extensions,
     graphic_rendering_blocks |->
         IF v = "V87a"
         THEN LET images == SelectSeq(d.graphic_rendering_blocks,
                                      LAMBDA x : x.tag = "Image")
              IN [k \in 1..Len(images) |-> DropGraphicControl(images[k])]
         ELSE d.graphic_rendering_blocks]

C7_EncodedOutputDecodes ==
    IsSome(out) =>
        /\ decode(Out, FALSE).pc = "Done"
        /\ decode(Out, FALSE).result
               = Some(NotFiltered(Doc, TargetVersion, TargetDiscard))

(***************************************************************************)
(* C8.  Truncated input: decode returns a document only after reading the   *)
(* trailer inside the buffer; every offset it has consumed lies inside the  *)
(* buffer; and a buffer that is a proper prefix of a stream that decodes,   *)
(* the 6-byte 'GIF87a' among them, ends decode with an out-of-bounds        *)
(* failure and no document.                                                 *)
(***************************************************************************)
ProperPrefix ==
    /\ Len(bytes) < Len(input.full)
    /\ decode(input.full, discard_comments).pc = "Done"

C8_TruncatedInput ==
    /\ pc = "Done" =>
          /\ cx.offset < Len(bytes)
          /\ bytes[cx.offset + 1] = 59
    /\ pc # "Panic" => cx.offset <= Len(bytes)
    /\ pc # "Done" => result = None
    /\ (pc \in Terminal /\ ProperPrefix) => pc = "Panic"
    /\ (pc \in Terminal /\ bytes \in {<<71, 73, 70, 56, 55, 97>>,
                                      <<71, 73, 70, 56, 57, 97>>})
          => pc = "Panic" /\ cx.offset = 6

\* the 6-byte input 'GIF87a'
C8_Witness ==
    /\ bytes = <<71, 73, 70, 56, 55, 97>>
    /\ pc = "Panic"
    /\ version = "V87a"
    /\ cx.offset = 6
    /\ result = None

(***************************************************************************)
(* C9.  Stream state machine: the header and the screen descriptor come     *)
(* before the loop; in Reading, the byte at the current offset decides the  *)
(* step: 0x21 runs the extension dispatcher, 0x2c decodes an image and      *)
(* appends it to the rendering blocks, 0x3b ends in Done with the document  *)
(* built from the lists, any other byte ends in Failed with an unknown-byte *)
(* error carrying the byte and its offset; Done and Failed are terminal     *)
(* and only Done returns a document.                                        *)
(***************************************************************************)
Marker == bytes[cx.offset + 1]
Dispatching == pc = "Reading" /\ cx.offset < Len(bytes)

C9_Step ==
    /\ pc \notin {"Failed", "Panic"}
    /\ pc = "Done" => pc' = "Done" /\ result' = result
    /\ pc \in {"Signature", "Version", "ScreenDescriptor"}
          => pc' \in {"Signature", "Version", "ScreenDescriptor", "Reading",
                      "Failed", "Panic"}
    /\ (pc # "Reading" /\ pc' = "Reading")
          => pc = "ScreenDescriptor" /\ IsSome(logical_screen_descriptor')
    /\ (Dispatching /\ Marker = 33)
          => /\ pc' \in {"Reading", "Failed", "Panic"}
             /\ pc' = "Reading" => cx'.offset >= cx.offset + 2
    /\ (Dispatching /\ Marker = 44)
          => /\ pc' \in {"Reading", "Panic"}
             /\ pc' = "Reading" =>
                   /\ Len(graphic_rendering_blocks')
                          = Len(graphic_rendering_blocks) + 1
                   /\ SubSeq(graphic_rendering_blocks', 1,
                             Len(graphic_rendering_blocks))
                          = graphic_rendering_blocks
                   /\ graphic_rendering_blocks'[
                          Len(graphic_rendering_blocks')].tag = "Image"
                   /\ UNCHANGED <<application_extensions, comment_extensions>>
    /\ (Dispatching /\ Marker = 59)
          => /\ pc' = "Done"
             /\ result' = Some(
                    [version |-> version,
                     logical_screen_descriptor |->
                         Unwrap(logical_screen_descriptor),
                     application_extensions |-> application_extensions,
                     graphic_rendering_blocks |-> graphic_rendering_blocks,
                     comment_extensions |-> comment_extensions])
    /\ (Dispatching /\ Marker \notin {33, 44, 59})
          => /\ pc' = "Failed"
             /\ err' = [kind |-> "unknown byte", offset |-> cx.offset,
                        expected |-> None, actual |-> <<Marker>>]
    /\ pc' # "Done" => result' = None

C9_StreamStateMachine == [][C9_Step]_vars

\* a decode that failed on an unknown byte at a block boundary
C9_Witness ==
    /\ pc = "Failed"
    /\ err.kind = "unknown byte"
    /\ err.actual = <<7>>
    /\ cx.offset = err.offset
    /\ Len(graphic_rendering_blocks) > 0
    /\ result = None

(***************************************************************************)
(* C10.  Header validation: when one of the first three bytes differs from  *)
(* 'G', 'I', 'F', decode fails with a signature error carrying the offset   *)
(* of the first such byte, the expected byte and the actual byte; when the  *)
(* signature matches and bytes 3..5 are neither '87a' nor '89a', decode     *)
(* fails with an invalid-version error; and a returned document has the     *)
(* version named by bytes 3..5.                                             *)
(***************************************************************************)
FirstMismatch(i) ==
    /\ i < Len(bytes)
    /\ bytes[i + 1] # <<71, 73, 70>>[i + 1]
    /\ \A j \in 0..(i - 1) : bytes[j + 1] = <<71, 73, 70>>[j + 1]

C10_HeaderValidation ==
    pc \in Terminal =>
        /\ \A i \in 0..2 :
              FirstMismatch(i) =>
                  /\ pc = "Failed"
                  /\ err = [kind |-> "invalid signature", offset |-> i,
                            expected |-> Some(<<71, 73, 70>>[i + 1]),
                            actual |-> <<bytes[i + 1]>>]
        /\ (Len(bytes) >= 6 /\ SubSeq(bytes, 1, 3) = <<71, 73, 70>>
            /\ SubSeq(bytes, 4, 6) \notin {<<56, 55, 97>>, <<56, 57, 97>>})
              => /\ pc = "Failed"
                 /\ err.kind = "invalid version"
                 /\ err.offset = 3
                 /\ err.actual = SubSeq(bytes, 4, 6)
        /\ pc = "Done" =>
              /\ Doc.version \in Versions
              /\ SubSeq(bytes, 4, 6) = VersionBytes(Doc.version)

\* 'G' followed by a byte that is not 'I'
C10_Witness ==
    /\ pc = "Failed"
    /\ SubSeq(bytes, 1, 2) = <<71, 88>>
    /\ err.kind = "invalid signature"
    /\ err.offset = 1
    /\ err.expected = <<73>>
    /\ err.actual = <<88>>

(***************************************************************************)
(* C11.  Extension dispatch errors: when the byte after an introducer is    *)
(* none of 0xf9, 0xfe, 0x01, 0xff, decode fails with an invalid extension   *)
(* label error whose byte is that label and whose offset is the offset of   *)
(* the label byte in the input, the byte right after the introducer.        *)
(***************************************************************************)
ExtensionLabels == {GraphicControlExtension_LABEL, CommentExtension_LABEL,
                    PlainTextExtension_LABEL, ApplicationExtension_LABEL}

\* the decode reached an introducer followed by a byte that is no label
AtBadLabel ==
    /\ pc = "Reading"
    /\ InBounds(bytes, cx.offset, 2)
    /\ At(bytes, cx.offset) = INTRODUCER
    /\ At(bytes, cx.offset + 1) \notin ExtensionLabels

C11_ExtensionDispatchErrors ==
    /\ AtBadLabel
          => LoopStep(Locals, bytes, discard_comments).pc = "Failed"
    /\ (pc = "Failed" /\ err.kind = "invalid extension label")
          => /\ err.offset >= 1
             /\ InBounds(bytes, err.offset, 1)
             /\ At(bytes, err.offset - 1) = INTRODUCER
             /\ err.actual = <<At(bytes, err.offset)>>
             /\ err.actual[1] \notin ExtensionLabels

(***************************************************************************)
(* C12.  Fixed-structure validation: when decode stands on an introducer    *)
(* whose label is graphic control, application or plain text and the        *)
(* block-size byte after the label is not 4, 11 or 12 respectively, or on   *)
(* a graphic control extension whose byte after the four fields is not 0,   *)
(* the decode fails, returns no document, and the error carries the offset  *)
(* of the offending byte, the expected value and the actual value.          *)
(***************************************************************************)
\* decode stands on an introducer followed by this label, with n more bytes
AtExtension(label, n) ==
    /\ pc = "Reading"
    /\ InBounds(bytes, cx.offset, 2 + n)
    /\ At(bytes, cx.offset) = INTRODUCER
    /\ At(bytes, cx.offset + 1) = label

\* the step from here fails with exactly this error about the byte at o
FailsAt(kind, o, expected) ==
    /\ LoopStep(Locals, bytes, discard_comments).pc = "Failed"
    /\ LoopStep(Locals, bytes, discard_comments).result = None
    /\ LoopStep(Locals, bytes, discard_comments).err
           = [kind |-> kind, offset |-> o, expected |-> <<expected>>,
              actual |-> <<At(bytes, o)>>]

C12_FixedStructureValidation ==
    /\ (AtExtension(249, 1) /\ At(bytes, cx.offset + 2) # 4)
          => FailsAt("invalid block size", cx.offset + 2, 4)
    /\ (AtExtension(255, 1) /\ At(bytes, cx.offset + 2) # 11)
          => FailsAt("invalid block size", cx.offset + 2, 11)
    /\ (AtExtension(1, 1) /\ At(bytes, cx.offset + 2) # 12)
          => FailsAt("invalid block size", cx.offset + 2, 12)
    /\ (AtExtension(249, 6) /\ At(bytes, cx.offset + 2) = 4
        /\ At(bytes, cx.offset + 7) # 0)
          => FailsAt("invalid block terminator", cx.offset + 7, 0)
    /\ pc = "Failed" => result = None

\* a decode that stored an image and then failed on the byte 0x01 where a
\* graphic control extension's terminator belongs
C12_Witness ==
    /\ pc = "Failed"
    /\ result = None
    /\ err.kind = "invalid block terminator"
    /\ err.expected = <<0>>
    /\ err.actual = <<1>>
    /\ At(bytes, err.offset) = 1
    /\ At(bytes, err.offset - 6) = 249
    /\ Len(graphic_rendering_blocks) = 1

(***************************************************************************)
(* C13.  Plain text without a global palette.  As stated: when the screen   *)
(* descriptor has no global palette, the document holds no plain-text       *)
(* block, the plain-text extensions of the file cause no error, and the     *)
(* decode ends as the decode of the same file without its plain-text        *)
(* extensions ends: same outcome, same document.                            *)
(***************************************************************************)
Keep(blocks, dropped) ==
    SelectSeq(Indices(blocks), LAMBDA i : i \notin dropped)

\* the file made of the blocks of the input file outside `dropped`
FileWithout(dropped) ==
    Stream(input.sig, input.ver, input.screen,
           [k \in 1..Len(Keep(input.blocks, dropped)) |->
                input.blocks[Keep(input.blocks, dropped)[k]]])

PlainTexts == {i \in 1..Len(input.blocks) : input.blocks[i].kind = "plaintext"}

\* the graphic control extensions a plain-text block takes: those before it
\* with no rendering block in between
TakenByPlainText ==
    {j \in 1..Len(input.blocks) :
        /\ input.blocks[j].kind = "gce"
        /\ \E i \in PlainTexts :
              /\ j < i
              /\ \A k \in (j + 1)..(i - 1) : ~Rendering(input.blocks[k])}

WholeFileNoPalette ==
    /\ pc \in Terminal
    /\ bytes = input.full
    /\ GoodHeader(input.sig, input.ver)
    /\ ~input.screen.palette

EndsLike(r) ==
    /\ pc = r.pc
    /\ result = r.result
    /\ pc = "Done" =>
          \A k \in 1..Len(Doc.graphic_rendering_blocks) :
              Doc.graphic_rendering_blocks[k].tag # "PlainText"

C13_PlainTextWithoutPalette_AsStated ==
    WholeFileNoPalette
        => EndsLike(decode(FileWithout(PlainTexts), discard_comments))

\* C13, amended: the same, for the file without its plain-text extensions
\* and without the graphic control extensions those plain-text blocks took
\* (a dropped plain-text block has already taken the pending modifier).
C13_PlainTextWithoutPalette ==
    WholeFileNoPalette
        => EndsLike(decode(FileWithout(PlainTexts \cup TakenByPlainText),
                           discard_comments))

\* [GraphicControl][PlainText][Image] without a global palette: the document
\* holds the image alone, and the image carries no graphic control extension
C13_Witness ==
    /\ pc = "Done"
    /\ ~input.screen.palette
    /\ input.blocks = <<GceA, TextA, ImageA>>
    /\ Len(graphic_rendering_blocks) = 1
    /\ graphic_rendering_blocks[1].tag = "Image"
    /\ GceOf(graphic_rendering_blocks[1]) = None

(***************************************************************************)
(* C14.  Chain codec round trip: a data sub-block chain of 0, 1 or many     *)
(* chunks, each of 1 to 255 bytes, encodes to each chunk's length byte and  *)
(* bytes in order followed by one 0x00, and decoding those bytes gives the  *)
(* same chunk sequence with the cursor right after the terminator.          *)
(***************************************************************************)
RECURSIVE ChainWire(_)
\* length byte and bytes of each chunk in order, then one 0x00
ChainWire(chunks) ==
    IF chunks = <<>> THEN <<0>>
    ELSE <<Len(Head(chunks).data)>> \o Head(chunks).data
         \o ChainWire(Tail(chunks))

C14_ChainCodecRoundTrip ==
    /\ IsSome(chain.encoded)
          => Unwrap(chain.encoded) = ChainWire(chain.self.blocks)
    /\ IsSome(chain.decoded)
          => /\ Unwrap(chain.decoded).st = "Ok"
             /\ Unwrap(chain.decoded).val = chain.self
             /\ Unwrap(chain.decoded).cx.offset
                    = Len(chain.before) + Len(Unwrap(chain.encoded))

\* a chain of three chunks, of 255 bytes, of 1 byte and of 2 zero bytes,
\* decoded from the middle of a buffer
C14_Witness ==
    /\ IsSome(chain.decoded)
    /\ Len(chain.self.blocks) = 3
    /\ chain.self.blocks[1].block_size = 255
    /\ chain.self.blocks[2].block_size = 1
    /\ chain.self.blocks[3].data = <<0, 0>>
    /\ chain.before = <<0, 9>>
    /\ Unwrap(chain.decoded).val = chain.self
    /\ Unwrap(chain.decoded).cx.offset = 2 + 256 + 2 + 3 + 1

(***************************************************************************)
(* C15.  Palette invariant: in a decoded document the global palette is     *)
(* present iff bit 7 of the screen descriptor's packed byte is 1, an        *)
(* image's local palette is present iff bit 7 of the image's packed byte    *)
(* is 1, a present palette has 3 * 2^(e+1) bytes for the size exponent e    *)
(* in the low 3 bits of the packed byte (0 to 7), and get_pixel(i) returns  *)
(* the bytes at positions [3i, 3i+3) of the palette.                        *)
(***************************************************************************)
Bit7(packed) == packed \div 128
Exponent(packed) == packed % 8

\* the table is there iff the flag is set, and has the length the exponent
\* gives and the bytes the file holds for it
TableAsPacked(table, packed, first) ==
    /\ IsSome(table) <=> Bit7(packed) = 1
    /\ IsSome(table) =>
          /\ Len(Unwrap(table).pixels) = 3 * Pow2(Exponent(packed) + 1)
          /\ Unwrap(table).pixels = TableBytes(packed, first)

PixelOf(which) == IF which = "global" THEN GlobalTable ELSE LocalTable

C15_PaletteInvariant ==
    /\ IsSome(color_tables.decoded) =>
          /\ Unwrap(color_tables.decoded).pc = "Done"
          /\ TableAsPacked(GlobalTable, color_tables.screen_packed, 10)
          /\ TableAsPacked(LocalTable, color_tables.image_packed, 100)
    /\ IsSome(color_tables.pixel) =>
          /\ Unwrap(color_tables.pixel).got.st = "Ok"
          /\ \A k \in 1..3 :
                Unwrap(color_tables.pixel).got.val[k]
                    = Unwrap(PixelOf(Unwrap(color_tables.pixel).table))
                          .pixels[3 * Unwrap(color_tables.pixel).idx + k]

\* a 256-entry global palette and no local palette; get_pixel(255) returned
\* the last three bytes of the global palette
C15_Witness ==
    /\ IsSome(color_tables.pixel)
    /\ color_tables.screen_packed = 135
    /\ color_tables.image_packed = 7
    /\ Len(Unwrap(GlobalTable).pixels) = 768
    /\ LocalTable = None
    /\ Unwrap(color_tables.pixel).table = "global"
    /\ Unwrap(color_tables.pixel).idx = 255
    /\ Unwrap(color_tables.pixel).got.val
           = SubSeq(Unwrap(GlobalTable).pixels, 766, 768)

(***************************************************************************)
(* C16.  Comment gating on encode: the output holds the comment extension   *)
(* blocks of the document, as one run of bytes, iff discard_comments is     *)
(* false and the target version is not 87a, and is otherwise the encoding   *)
(* of the document without its comments; for target 89a, encode(V89a, true) *)
(* is encode(V89a, false) with exactly the comment blocks removed.          *)
(***************************************************************************)
\* the bytes of the comment blocks of the file, in file order
CommentWires(blocks) ==
    extend_from_slice([i \in 1..KindCount(blocks, "comment") |->
        WireOf(SelectSeq(blocks, LAMBDA p : p.kind = "comment")[i])])

WithoutComments(d) == [d EXCEPT !.comment_extensions = <<>>]

\* s is `bare` with the bytes `run` put in at some offset
InsertedInto(s, bare, run) ==
    \E k \in 0..Len(bare) :
        s = SubSeq(bare, 1, k) \o run \o SubSeq(bare, k + 1, Len(bare))

C16_CommentGatingOnEncode ==
    IsSome(out) =>
        /\ InsertedInto(Out,
               GifData_encode(WithoutComments(Doc), TargetVersion,
                              TargetDiscard),
               IF ~TargetDiscard /\ TargetVersion # "V87a"
               THEN CommentWires(input.blocks) ELSE <<>>)
        /\ Len(CommentWires(input.blocks))
               = 6 * Len(Doc.comment_extensions)
        /\ GifData_encode(Doc, "V89a", TRUE)
               = GifData_encode(WithoutComments(Doc), "V89a", FALSE)
        /\ InsertedInto(GifData_encode(Doc, "V89a", FALSE),
                        GifData_encode(Doc, "V89a", TRUE),
                        CommentWires(input.blocks))

\* a document with an application extension, a comment and an image,
\* encoded for 89a with discard_comments = true: the comment's 6 bytes are
\* the only bytes of the file missing from the output
C16_Witness ==
    /\ IsSome(out)
    /\ TargetVersion = "V89a"
    /\ TargetDiscard
    /\ input.blocks = <<AppLoop, CommentHi, ImageA>>
    /\ Len(Doc.comment_extensions) = 1
    /\ SubSeq(input.ver, 1, 3) = <<56, 57, 97>>
    /\ Len(Out) = Len(input.full) - 6
    /\ Out = Stream(input.sig, input.ver, input.screen, <<AppLoop, ImageA>>)

(***************************************************************************)
(* C17.  Graphic-control emission: for a rendering block of the document    *)
(* with an attached graphic control extension, encode for a target other    *)
(* than 87a writes the complete extension block (0x21, 0xf9, 0x04, packed,  *)
(* delay high, delay low, transparent index, 0x00) immediately before the   *)
(* block's own introducer or separator, followed by the block as it is      *)
(* written without the extension; for target 87a an image is written        *)
(* without it.                                                              *)
(***************************************************************************)
GraphicControlWire(g) ==
    <<33, 249, 4, g.packed_fields, g.delay_time \div 256,
      g.delay_time % 256, g.transparent_color_index, 0>>

EmittedBeforeBlock(block, v) ==
    IF v = "V87a"
    THEN block.tag = "Image"
            => /\ GraphicRenderingBlock_encode(block, v)
                      = GraphicRenderingBlock_encode(
                            DropGraphicControl(block), v)
               /\ Head(GraphicRenderingBlock_encode(block, v)) = 44
    ELSE /\ GraphicRenderingBlock_encode(block, v)
                = GraphicControlWire(Unwrap(GceOf(block)))
                  \o GraphicRenderingBlock_encode(
                         DropGraphicControl(block), v)
         /\ Head(GraphicRenderingBlock_encode(DropGraphicControl(block), v))
                = (IF block.tag = "Image" THEN 44 ELSE 33)

C17_GraphicControlEmission ==
    IsSome(out) =>
        \A k \in 1..Len(Doc.graphic_rendering_blocks) :
            IsSome(GceOf(Doc.graphic_rendering_blocks[k]))
                => EmittedBeforeBlock(Doc.graphic_rendering_blocks[k],
                                      TargetVersion)

(***************************************************************************)
(* C18.  Rendering-block order: the k-th element of the document's          *)
(* graphic_rendering_blocks is the k-th stored image or plain-text block    *)
(* of the file, and the output of encode ends with the encodings of the     *)
(* non-filtered rendering blocks in list order, then the trailer.           *)
(***************************************************************************)
\* the block as the file would hold it, its graphic control extension aside
OwnWire(block) ==
    GraphicRenderingBlock_encode(DropGraphicControl(block), "V89a")

\* the list entries encode leaves in for target v, in list order
Emitted(blocks, v) ==
    SelectSeq(blocks, LAMBDA x : x.tag = "Image" \/ v # "V87a")

RenderingWires(blocks, v) ==
    extend_from_slice([k \in 1..Len(Emitted(blocks, v)) |->
        GraphicRenderingBlock_encode(Emitted(blocks, v)[k], v)])

EndsWith(s, tail) ==
    /\ Len(s) >= Len(tail)
    /\ SubSeq(s, Len(s) - Len(tail) + 1, Len(s)) = tail

C18_RenderingBlockOrder ==
    /\ pc = "Done" =>
          /\ Len(graphic_rendering_blocks)
                 = Len(KeptRendering(input.blocks, input.screen.palette))
          /\ \A k \in 1..Len(graphic_rendering_blocks) :
                OwnWire(graphic_rendering_blocks[k])
                    = input.blocks[KeptRendering(
                          input.blocks, input.screen.palette)[k]].wire
    /\ IsSome(out) =>
          EndsWith(Out, RenderingWires(Doc.graphic_rendering_blocks,
                                       TargetVersion) \o <<59>>)

\* a file of a plain-text block, an image and a different image, decoded
\* and encoded for 89a
C18_Witness ==
    /\ IsSome(out)
    /\ TargetVersion = "V89a"
    /\ input.blocks = <<TextA, ImageB, ImageA>>
    /\ Len(Doc.graphic_rendering_blocks) = 3
    /\ Doc.graphic_rendering_blocks[1].tag = "PlainText"
    /\ IsSome(Doc.graphic_rendering_blocks[2].ext.local_color_table)
    /\ Doc.graphic_rendering_blocks[3].ext.local_color_table = None
    /\ EndsWith(Out, TextA.wire \o ImageB.wire \o ImageA.wire \o <<59>>)

(***************************************************************************)
(* C19.  Single pending slot: at every point of a decode at most one        *)
(* graphic control extension is pending, and at a block boundary it is the  *)
(* last one decoded since the last rendering block; a file with two         *)
(* graphic control extensions and no rendering block between them does not  *)
(* fail for that, and the next rendering block carries the fields of the    *)
(* second one only.                                                         *)
(***************************************************************************)
RECURSIVE WiresLength(_, _)
WiresLength(blocks, n) ==
    IF n = 0 THEN 0 ELSE WiresLength(blocks, n - 1) + Len(blocks[n].wire)

\* the offset at which block n + 1 of the file starts
Boundary(n) == 6 + Len(input.screen.wire) + WiresLength(input.blocks, n)

\* positions j < j2 < i: two graphic control extensions and the rendering
\* block that follows them, with no rendering block after j before i
TwoBefore(j, j2, i) ==
    /\ j < j2 /\ j2 < i
    /\ input.blocks[j].kind = "gce"
    /\ input.blocks[j2].kind = "gce"
    /\ Rendering(input.blocks[i])
    /\ \A k \in (j + 1)..(i - 1) : ~Rendering(input.blocks[k])
    /\ \A k \in (j2 + 1)..(i - 1) : input.blocks[k].kind # "gce"

\* the position in the document of the file's block i
StoredAt(i) ==
    Cardinality({k \in 1..i : input.blocks[k].kind = "image"
                    \/ (input.blocks[k].kind = "plaintext"
                        /\ input.screen.palette)})

Decodable ==
    /\ bytes = input.full
    /\ GoodHeader(input.sig, input.ver)
    /\ AllGood(input.blocks)
    /\ ~(discard_comments /\ KindCount(input.blocks, "comment") > 0)

C19_SinglePendingSlot ==
    /\ Len(cx.graphic_control_extension) <= 1
    /\ \A n \in 0..Len(input.blocks) :
          (pc = "Reading" /\ GoodHeader(input.sig, input.ver)
           /\ cx.offset = Boundary(n))
              => cx.graphic_control_extension
                     = Preceding(input.blocks, n + 1)
    /\ (pc \in Terminal /\ Decodable) => pc = "Done"
    /\ pc = "Done" =>
          \A j, j2, i \in 1..Len(input.blocks) :
              (TwoBefore(j, j2, i)
               /\ (input.blocks[i].kind = "image" \/ input.screen.palette))
                  => GceOf(graphic_rendering_blocks[StoredAt(i)])
                         = input.blocks[j2].gce

\* [GraphicControl A][GraphicControl B][Image]: the image carries B's fields
C19_Witness ==
    /\ pc = "Done"
    /\ input.blocks = <<GceA, GceB, ImageA>>
    /\ Len(graphic_rendering_blocks) = 1
    /\ GceOf(graphic_rendering_blocks[1])
           = Some([packed_fields |-> 8, delay_time |-> 10,
                   transparent_color_index |-> 0])

(***************************************************************************)
(* C20.  A pending modifier is used exactly once: a step that decodes an    *)
(* image or a plain-text block hands the pending graphic control extension  *)
(* to that block and leaves the slot empty, and blocks already stored are   *)
(* never changed; so no more stored blocks carry an extension than the      *)
(* file has graphic control extensions, and a rendering block with no       *)
(* graphic control extension between it and the rendering block before it   *)
(* ([GraphicControl][Image][Image]: the second image) carries none.         *)
(***************************************************************************)
LastStored(blocks) == blocks[Len(blocks)]

C20_Step ==
    /\ (Dispatching /\ Marker = 44 /\ pc' = "Reading")
          => /\ cx'.graphic_control_extension = None
             /\ Len(graphic_rendering_blocks')
                    = Len(graphic_rendering_blocks) + 1
             /\ GceOf(LastStored(graphic_rendering_blocks'))
                    = cx.graphic_control_extension
    /\ (AtExtension(1, 0) /\ pc' = "Reading")
          => /\ cx'.graphic_control_extension = None
             /\ Len(graphic_rendering_blocks')
                    \in {Len(graphic_rendering_blocks),
                         Len(graphic_rendering_blocks) + 1}
             /\ Len(graphic_rendering_blocks')
                    > Len(graphic_rendering_blocks)
                   => GceOf(LastStored(graphic_rendering_blocks'))
                          = cx.graphic_control_extension
    /\ /\ Len(graphic_rendering_blocks') >= Len(graphic_rendering_blocks)
       /\ SubSeq(graphic_rendering_blocks', 1,
                 Len(graphic_rendering_blocks)) = graphic_rendering_blocks

Carrying(blocks) == {k \in 1..Len(blocks) : IsSome(GceOf(blocks[k]))}

\* block i of the file is a stored rendering block and no graphic control
\* extension lies between it and the rendering block before it
FollowsRendering(i) ==
    /\ input.blocks[i].kind = "image"
          \/ (input.blocks[i].kind = "plaintext" /\ input.screen.palette)
    /\ \E j \in 1..(i - 1) :
          /\ Rendering(input.blocks[j])
          /\ \A k \in (j + 1)..(i - 1) : input.blocks[k].kind # "gce"

C20_Used ==
    pc = "Done" =>
        /\ Cardinality(Carrying(graphic_rendering_blocks))
               <= KindCount(input.blocks, "gce")
        /\ \A i \in 1..Len(input.blocks) :
              FollowsRendering(i)
                  => GceOf(graphic_rendering_blocks[StoredAt(i)]) = None

C20_PendingUsedOnce == [][C20_Step]_vars /\ []C20_Used

\* [GraphicControl][PlainText][Image] with a global palette: the plain-text
\* block carries the extension, the image after it carries none
C20_Witness ==
    /\ pc = "Done"
    /\ input.screen.palette
    /\ input.blocks = <<GceA, TextA, ImageA>>
    /\ Len(graphic_rendering_blocks) = 2
    /\ GceOf(graphic_rendering_blocks[1]) = GceA.gce
    /\ GceOf(graphic_rendering_blocks[2]) = None
    /\ cx.graphic_control_extension = None

(***************************************************************************)
(* decode run to completion: main calls decode and then encode, and         *)
(* nothing else runs, so a step that can be taken is taken.                 *)
(***************************************************************************)
\* a step can be taken: decode has not ended, or encode has not been called
CanStep == pc \notin Terminal \/ (pc = "Done" /\ out = None)

\* WF_vars(Next) written with CanStep for ENABLED <<Next>>_vars: if from some
\* point on a step can always be taken, steps are taken again and again
FairSpec == Spec /\ ([]<>(~CanStep) \/ []<><<Next>>_vars)

(***************************************************************************)
(* C21.  Forward-only termination: no step of decode moves the cursor       *)
(* back; every iteration of the top-level loop that goes round again, and   *)
(* every call of DataSubBlock::decode that returns, leaves the offset       *)
(* strictly larger; the offset stays within the buffer; a decode that has   *)
(* not ended always has a step that changes its state; and every decode     *)
(* ends in Done, in Failed or in the out-of-bounds failure.                 *)
(***************************************************************************)
C21_Step ==
    /\ cx'.offset >= cx.offset
    /\ (pc = "Reading" /\ pc' = "Reading") => cx'.offset > cx.offset
    /\ bytes' = bytes

\* one iteration of the data sub-block loop, started at any offset of the
\* buffer: it returns with the cursor further on, or reads past the end
SubBlockAdvances(o) ==
    /\ DataSubBlock_decode([Context_default EXCEPT !.offset = o], bytes).st
           \in {"Ok", "Panic"}
    /\ DataSubBlock_decode([Context_default EXCEPT !.offset = o], bytes).st
           = "Ok"
          => /\ DataSubBlock_decode([Context_default EXCEPT !.offset = o],
                                    bytes).cx.offset > o
             /\ DataSubBlock_decode([Context_default EXCEPT !.offset = o],
                                    bytes).cx.offset <= Len(bytes)

C21_Within ==
    /\ pc # "Panic" => cx.offset <= Len(bytes)
    /\ pc \in {"Signature", "Version", "ScreenDescriptor", "Reading"}
           \cup Terminal
    /\ pc \notin Terminal
          => Step(Locals, bytes, discard_comments) # Locals
    /\ pc = "Signature" => \A o \in 0..(Len(bytes) - 1) : SubBlockAdvances(o)

C21_ForwardOnlyTermination ==
    [][C21_Step]_vars /\ []C21_Within /\ <>(pc \in Terminal)

\* a decode that went round the loop three times and ended in Done at the
\* last byte of the buffer
C21_Witness ==
    /\ pc = "Done"
    /\ Len(input.blocks) = 3
    /\ input.blocks[2].kind = "comment"
    /\ cx.offset = Len(bytes) - 1
    /\ out = None

\* the two bytes of the field in the bytes of its structure
FieldPair(name, wire) ==
    SubSeq(wire, FieldOffset(name) + 1, FieldOffset(name) + 2)

(***************************************************************************)
(* C22.  16-bit field codec: a field is encoded as value >> 8 followed by   *)
(* the low 8 bits and decoded as high_byte * 256 + low_byte; nothing        *)
(* overflows: the high byte fits in 8 bits and the decoded value in 16;     *)
(* for every value 0..65535 encode then decode gives the value back, and    *)
(* for every pair of bytes decode then encode gives the bytes back.         *)
(***************************************************************************)
C22_FieldCodec ==
    field # None =>
      /\ (field.first = "encode" /\ IsSome(field.wire)) =>
            LET x == Unwrap(field.value)
            IN /\ x \div 256 \in U8
               /\ Unwrap(field.wire)
                     = FieldWire(field.name, <<x \div 256, x % 256>>)
      /\ (field.first = "encode" /\ IsSome(field.back)) =>
            field.back = field.value
      /\ (field.first = "decode" /\ IsSome(field.value)) =>
            LET pair == FieldPair(field.name, Unwrap(field.wire))
            IN /\ pair[1] * 256 + pair[2] \in U16
               /\ Unwrap(field.value) = pair[1] * 256 + pair[2]
      /\ (field.first = "decode" /\ IsSome(field.back)) =>
            field.back = field.wire

\* the largest value went through encode and decode
C22_Witness ==
    /\ field # None
    /\ field.first = "encode"
    /\ field.name = "delay_time"
    /\ field.value = Some(65535)
    /\ IsSome(field.wire)
    /\ FieldPair("delay_time", Unwrap(field.wire)) = <<255, 255>>
    /\ field.back = Some(65535)

\* the bytes of the application extensions of the file, in file order
ApplicationWires(blocks) ==
    extend_from_slice([i \in 1..KindCount(blocks, "application") |->
        WireOf(SelectSeq(blocks, LAMBDA p : p.kind = "application")[i])])

\* the section of the output a block of the file belongs to
Section(p) ==
    CASE p.kind = "application" -> 1
      [] p.kind = "comment" -> 2
      [] OTHER -> 3

\* application extensions, then comments, then the rendering blocks with
\* their graphic control extensions
InEncodeOrder(blocks) ==
    \A i \in 1..Len(blocks) : \A j \in i..Len(blocks) :
        Section(blocks[i]) <= Section(blocks[j])

(***************************************************************************)
(* C23.  Encode block order: after the screen descriptor the output holds   *)
(* the emitted application extensions of the file in file order, then the   *)
(* emitted comment extensions in file order, then the emitted rendering     *)
(* blocks and the trailer, however these blocks were interleaved in the     *)
(* file; and when the output for the file's own version equals the input    *)
(* bytes, the blocks of the file were already in this order.                *)
(***************************************************************************)
C23_EncodeBlockOrder ==
    IsSome(out) =>
        /\ Out = SIGNATURE \o VersionBytes(TargetVersion)
                 \o input.screen.wire
                 \o (IF TargetVersion = "V87a" THEN <<>>
                     ELSE ApplicationWires(input.blocks))
                 \o (IF TargetVersion = "V87a" \/ TargetDiscard
                        \/ discard_comments
                     THEN <<>> ELSE CommentWires(input.blocks))
                 \o RenderingWires(Doc.graphic_rendering_blocks,
                                   TargetVersion)
                 \o <<59>>
        /\ (VersionBytes(TargetVersion) = input.ver /\ Out = bytes)
               => InEncodeOrder(input.blocks)

\* a file with an image, then a comment, then an application extension:
\* the output for 89a has them in the opposite order and differs from the
\* input
C23_Witness ==
    /\ IsSome(out)
    /\ TargetVersion = "V89a"
    /\ ~TargetDiscard
    /\ input.ver = <<56, 57, 97>>
    /\ input.blocks = <<ImageA, CommentHi, AppLoop>>
    /\ ~InEncodeOrder(input.blocks)
    /\ EndsWith(Out, AppLoop.wire \o CommentHi.wire \o ImageA.wire
                     \o <<59>>)
    /\ Out # bytes

\* decode is at a plain-text extension, a modifier is pending, and the
\* screen descriptor has no global palette
AtPlainTextToDrop ==
    /\ AtExtension(PlainTextExtension_LABEL, 0)
    /\ IsSome(cx.graphic_control_extension)
    /\ Unwrap(logical_screen_descriptor).global_color_table = None

(***************************************************************************)
(* C24.  Dropped plain text consumes the pending modifier: the step that    *)
(* decodes a plain-text extension while a modifier is pending and drops     *)
(* the block for want of a global palette stores nothing and leaves the     *)
(* pending slot empty; so in a document decoded from a file without a       *)
(* global palette every image carries the graphic control extension that    *)
(* precedes it in the file with no image and no plain-text block in         *)
(* between, and none if there is no such extension.                         *)
(***************************************************************************)
C24_Step ==
    (AtPlainTextToDrop /\ pc' = "Reading")
        => /\ cx'.graphic_control_extension = None
           /\ cx'.offset > cx.offset
           /\ graphic_rendering_blocks' = graphic_rendering_blocks

C24_NextImage ==
    (pc = "Done" /\ Decodable /\ ~input.screen.palette) =>
        \A i \in 1..Len(input.blocks) :
            input.blocks[i].kind = "image"
                => GceOf(graphic_rendering_blocks[StoredAt(i)])
                       = Preceding(input.blocks, i)

C24_DroppedPlainTextConsumesPending ==
    [][C24_Step]_vars /\ []C24_NextImage

\* [GraphicControl][PlainText][Image] without a global palette, right after
\* the plain-text block: nothing stored, nothing pending, the image ahead
C24_Witness ==
    /\ pc = "Reading"
    /\ ~input.screen.palette
    /\ input.blocks = <<GceA, TextA, ImageA>>
    /\ bytes = input.full
    /\ cx.offset = Boundary(2)
    /\ cx.graphic_control_extension = None
    /\ graphic_rendering_blocks = <<>>

====
